---- MODULE Spec2Model ----
(***************************************************************************)
(* Model of the hardpoint-test pipeline of lsst.sitcom.tn082:              *)
(*   utils.py        chunk_ranges_utc, group_by_gaps                       *)
(*   scan_status.py  align_to_status_index, compute_end_time_from_status,  *)
(*                   scan_days_with_tests_real_status                      *)
(*   features.py     build_state_segments, find_breakaway_index, the       *)
(*                   post-fit stiffness filter and the band classification *)
(* Timestamps are integers (ticks).  A missing value (NaN / None) is a     *)
(* record with na = TRUE.                                                  *)
(***************************************************************************)
EXTENDS Integers, Sequences, FiniteSets, TLC

VARIABLES
    status_series,  \* build_state_segments: the input state series
    seg_t0,         \* build_state_segments: window start
    seg_t1,         \* build_state_segments: window end
    segs,           \* build_state_segments: the returned list of segments
    seg_pc,         \* "call" before the call, "done" after it
    displacement_um,\* find_breakaway_index: the input displacement series
    ba_idx,         \* find_breakaway_index: the returned position (or none)
    brk_pc,         \* "call" before the call, "done" after it
    df_groups,      \* extract_features_for_groups: the input window table
    overwrite,      \* extract_features_for_groups: the overwrite flag
    include_mount_angles, \* extract_features_for_groups: fetch the angles
    feat_csv,       \* the table stored at outpath (NoTable: no file)
    feat_env,       \* which telemetry the EFD can deliver, and for how many rows
    feat_pc,        \* position: "start", "group", "hp", "phase", "done"
    feat_idx,       \* index of the window being processed
    feat_hp,        \* actuator being processed (1..N_HP)
    feat_ph,        \* phase being processed (index into StateMap)
    feat_angles,    \* (el_deg, az_deg) of the window being processed
    feat_angle_q,   \* the outcomes of the two mount-angle queries of the window
    feat_case,      \* what stiffness_from_df / the breakaway gave for the last row
    rows,           \* the feature rows appended so far
    df_feat,        \* the returned feature table
    feat_queries,   \* number of EFD queries issued
    chunk_args,     \* chunk_ranges_utc: start, end, days, overlap_hours
    chunk_start,    \* chunk_ranges_utc: the local chunk_start
    chunks,         \* chunk_ranges_utc: the chunks yielded so far
    chunk_pc,       \* "loop" while the generator runs, "done" once exhausted
    scan_world,     \* what the EFD holds: the command events and the state rows
    scan_args,      \* scan_days_with_tests_real_status: the Timedelta arguments
    scan_chunk_start, \* the generator's chunk_start inside the scan loop
    scan_pc,        \* "chunk", "finish", "done", or "raised" (exception)
    scan_fault,     \* which query of the last chunk raised ("none", "cmd", "sts")
    group_rows,     \* the window rows accumulated so far
    seen,           \* the seen-set of (t0, t1, hp_indices) keys
    scan_log,       \* per command group processed: what alignment and detection gave
    df_groups_out,  \* the returned window table
    df_days_out,    \* the returned daily summary
    call_args,      \* a helper function called on its own: its arguments
    call_result,    \* what the call returned
    call_pc         \* "idle", "call" before the call, "returned" after it

segVars == <<status_series, seg_t0, seg_t1, segs, seg_pc>>
brkVars == <<displacement_um, ba_idx, brk_pc>>

featVars == <<df_groups, overwrite, include_mount_angles, feat_csv, feat_env,
              feat_pc, feat_idx, feat_hp, feat_ph, feat_angles, feat_angle_q, feat_case, rows,
              df_feat, feat_queries>>

chunkVars == <<chunk_args, chunk_start, chunks, chunk_pc>>

scanVars == <<scan_world, scan_args, scan_chunk_start, scan_pc, scan_fault,
              group_rows, seen, scan_log, df_groups_out, df_days_out>>

callVars == <<call_args, call_result, call_pc>>

vars == <<segVars, brkVars, featVars, chunkVars, scanVars, callVars>>

(***************************************************************************)
(* Bounds of the model.                                                    *)
(***************************************************************************)
MaxT == 4         \* timestamps of the segmenter range over 0..MaxT
MaxLen == 3       \* longest state series handed to the segmenter
MaxDisp == 6      \* longest enumerated displacement series
MaxHours == 50    \* chunk_ranges_utc: start and end range over 0..MaxHours (hours)
MaxDays == 2      \* chunk_ranges_utc: days ranges over 0..MaxDays
MaxWindows == 2   \* most windows in the table given to the aggregator
MaxRows == 2      \* most feature rows a run of the aggregator appends
MaxVec == 2       \* longest vector handed to slope_through_origin
MaxCurve == 24     \* longest curve handed to stiffness_from_df
ScanMaxT == 4     \* the scan covers the ticks 0..ScanMaxT
MaxCmds == 2      \* most command events the EFD holds
MaxStatus == 3    \* most state rows the EFD holds
ScanDayTicks == 3 \* ticks in a calendar day; chunk_days is one day

(***************************************************************************)
(* HardpointTest enum values used by the pipeline.                         *)
(***************************************************************************)
MOVINGNEGATIVE == 2
TESTINGPOSITIVE == 3
TESTINGNEGATIVE == 4
NOTTESTED == 1

(***************************************************************************)
(* Generic helpers.                                                        *)
(***************************************************************************)
Range(s) == {s[i] : i \in 1..Len(s)}

\* The strictly increasing sequences of elements of 0..hi of length n.
RECURSIVE IncSeqs(_, _, _)
IncSeqs(lo, hi, n) ==
    IF n = 0 THEN {<<>>}
    ELSE UNION {{<<t>> \o r : r \in IncSeqs(t + 1, hi, n - 1)} : t \in lo..hi}

\* All sequences over S of length n.
SeqsOfLen(S, n) == [1..n -> S]

(***************************************************************************)
(* utils.py: chunk_ranges_utc.  Timestamps and Timedeltas are in hours.    *)
(***************************************************************************)
HOURS_PER_DAY == 24

Min(a, b) == IF a <= b THEN a ELSE b

\* pd.Timedelta(days=days)
DaysDelta(days) == days * HOURS_PER_DAY

\* Mutant: the overlap is reset only when it exceeds the chunk size.
ChunkOverlapStrict(delta, overlap) == IF overlap > delta THEN 0 ELSE overlap

\* Lines 69-73: an overlap of at least the chunk size becomes zero.
ChunkOverlap(delta, overlap) == IF overlap >= delta THEN 0 ELSE overlap

\* Mutant: the chunk end is not clipped to the end of the range.
ChunkEndNoClip(cs, delta, end) == cs + delta

\* Line 77.
ChunkEnd(cs, delta, end) == Min(cs + delta, end)

\* Line 81.
NextChunkStart(chunk_end, delta, overlap) == chunk_end - ChunkOverlap(delta, overlap)

(***************************************************************************)
(* features.py: build_state_segments                                       *)
(***************************************************************************)
\* A sample of a state series: timestamp t, value v, na = TRUE for NaN.
Sample(t, v) == [t |-> t, v |-> v, na |-> FALSE]
NaSample(t) == [t |-> t, v |-> 0, na |-> TRUE]

\* status_series.dropna()
DropNa(s) == SelectSeq(s, LAMBDA x : ~x.na)

\* Insert x into the index-sorted sequence s, after the entries with t <= x.t.
RECURSIVE InsertSorted(_, _)
InsertSorted(s, x) ==
    IF s = <<>> THEN <<x>>
    ELSE IF x.t < s[1].t THEN <<x>> \o s
    ELSE <<s[1]>> \o InsertSorted(Tail(s), x)

\* sort_index(): the samples ordered by timestamp.
RECURSIVE SortIndex(_)
SortIndex(s) ==
    IF s = <<>> THEN <<>>
    ELSE InsertSorted(SortIndex(SubSeq(s, 1, Len(s) - 1)), s[Len(s)])

\* s[(s.index >= t0) & (s.index <= t1)]
InWindow(s, t0, t1) == SelectSeq(s, LAMBDA x : x.t >= t0 /\ x.t <= t1)

\* s.loc[t] = v : overwrites the entries labelled t, or appends (t, v) at the
\* end of the series when the label is new.
SetLoc(s, t, v) ==
    IF \E i \in 1..Len(s) : s[i].t = t
    THEN [i \in 1..Len(s) |-> IF s[i].t = t THEN Sample(t, v) ELSE s[i]]
    ELSE Append(s, Sample(t, v))

\* Mutant: the window edges are not extended at all.
ExtendEdgesNone(s, t0, t1) == s

\* Lines 189-192.  The second test reads s.index[-1] and s.iloc[-1] of the
\* series as the first assignment left it.
ExtendEdges(s, t0, t1) ==
    LET s1 == IF s[1].t > t0 THEN SetLoc(s, t0, s[1].v) ELSE s
    IN  IF s1[Len(s1)].t < t1 THEN SetLoc(s1, t1, s1[Len(s1)].v) ELSE s1

\* Mutant: every sample starts a segment.
ChangePointsAll(s) == [i \in 1..Len(s) |-> i]

\* s.ne(s.shift()): position 1 always differs from the shifted-in NaN.
ChangePoints(s) ==
    SelectSeq([i \in 1..Len(s) |-> i],
              LAMBDA i : i = 1 \/ s[i].v # s[i - 1].v)

\* Lines 197-202: one segment per change point, the last one ends at t1.
SegmentsOf(s, idx, t1) ==
    [k \in 1..Len(idx) |->
        [a  |-> s[idx[k]].t,
         b  |-> IF k + 1 <= Len(idx) THEN s[idx[k + 1]].t ELSE t1,
         st |-> s[idx[k]].v]]

build_state_segments(series, t0, t1) ==
    IF series = <<>> THEN <<>>
    ELSE LET d == DropNa(series) IN
    IF d = <<>> THEN <<>>
    ELSE LET w == InWindow(SortIndex(d), t0, t1) IN
    IF w = <<>> THEN <<>>
    ELSE LET s == SortIndex(ExtendEdges(w, t0, t1)) IN
         SegmentsOf(s, ChangePoints(s), t1)

(***************************************************************************)
(* features.py: find_breakaway_index                                       *)
(***************************************************************************)
BREAKAWAY_DISP_UM == 1
BREAKAWAY_MIN_CONSEC == 3

Abs(x) == IF x < 0 THEN 0 - x ELSE x

\* An optional position: None, or a 0-based position.
None == [none |-> TRUE, val |-> 0]
Some(x) == [none |-> FALSE, val |-> x]

\* displacement_um.diff().abs() > BREAKAWAY_DISP_UM ; the first difference is
\* NaN, which compares False.
Above(d) ==
    [i \in 1..Len(d) |-> i > 1 /\ Abs(d[i] - d[i - 1]) > BREAKAWAY_DISP_UM]

\* Mutant: the start of the run is not forgotten when the run breaks.
RECURSIVE BreakawayScanKeepFirst(_, _, _, _)
BreakawayScanKeepFirst(above, i, count, first) ==
    IF i > Len(above) THEN None
    ELSE IF above[i]
         THEN LET f == IF first.none THEN Some(i - 1) ELSE first IN
              IF count + 1 >= BREAKAWAY_MIN_CONSEC THEN f
              ELSE BreakawayScanKeepFirst(above, i + 1, count + 1, f)
         ELSE BreakawayScanKeepFirst(above, i + 1, 0, first)

\* Lines 357-369: the loop over enumerate(above), from element i (1-based
\* here, the positions returned are the code's 0-based ones).
RECURSIVE BreakawayScan(_, _, _, _)
BreakawayScan(above, i, count, first) ==
    IF i > Len(above) THEN None
    ELSE IF above[i]
         THEN LET f == IF first.none THEN Some(i - 1) ELSE first IN
              IF count + 1 >= BREAKAWAY_MIN_CONSEC THEN f
              ELSE BreakawayScan(above, i + 1, count + 1, f)
         ELSE BreakawayScan(above, i + 1, 0, None)

find_breakaway_index(d) ==
    IF d = <<>> THEN None
    ELSE LET above == Above(d) IN
         IF ~(\E i \in 1..Len(above) : above[i]) THEN None
         ELSE BreakawayScan(above, 1, 0, None)

\* Displacement series (um): every series of up to MaxDisp samples over
\* DispValues, and the two series of the design's examples.
DispValues == {0, 1, 3}
DispExamples == {<<0, 0, 0, 0, 2, 4, 6, 0, 0>>, <<0, 0, 3, 0, 0>>}
DispSeries == DispExamples \cup UNION {SeqsOfLen(DispValues, n) : n \in 0..MaxDisp}

(***************************************************************************)
(* utils.py: group_by_gaps; scan_status.py: align_to_status_index,         *)
(* compute_end_time_from_status.  One tick is 5 s; a Timedelta argument is *)
(* a number of ticks.  A command event is [t, hp]; a state row is [t, s0]: *)
(* the column testState0, the columns testState1..5 read NOTTESTED.        *)
(***************************************************************************)
N_HP == 6
PRE_WINDOW == 1
ACTIVE_STATES_DEFAULT == {MOVINGNEGATIVE, TESTINGPOSITIVE, TESTINGNEGATIVE}

\* select_time_series(start=t0, end=t1): the rows with t0 <= t <= t1, and
\* ensure_utc_index.
FetchRange(rows_, t0, t1) == SortIndex(InWindow(rows_, t0, t1))

\* Mutant: a gap equal to the threshold starts a new group.
GapExceededLax(d, gap) == d >= gap

\* Line 101: .gt(pd.Timedelta(gap)) on a difference of timestamps.
GapExceeded(d, gap) == d > gap

\* Line 101: df.index.to_series().diff().gt(gap).cumsum().
RECURSIVE GroupIds(_, _)
GroupIds(cmd, gap) ==
    IF cmd = <<>> THEN <<>>
    ELSE IF Len(cmd) = 1 THEN <<0>>
    ELSE LET front == SubSeq(cmd, 1, Len(cmd) - 1)
             g == GroupIds(front, gap)
             jump == IF GapExceeded(cmd[Len(cmd)].t - cmd[Len(cmd) - 1].t, gap)
                     THEN 1 ELSE 0
         IN  Append(g, g[Len(g)] + jump)

\* The elements of a set of integers in ascending order (sorted(...)).
RECURSIVE SortedSeq(_)
SortedSeq(S) ==
    IF S = {} THEN <<>>
    ELSE LET m == CHOOSE x \in S : \A y \in S : x <= y
         IN  <<m>> \o SortedSeq(S \ {m})

\* Lines 283-293: one summary row per group_id, in ascending group_id.
GroupSummary(cmd, gid) ==
    LET ids == SortedSeq(Range(gid)) IN
    [k \in 1..Len(ids) |->
        LET members == {i \in 1..Len(cmd) : gid[i] = ids[k]} IN
        [group_id |-> ids[k],
         reference_time |-> CHOOSE t \in {cmd[i].t : i \in members} :
                                \A i \in members : t <= cmd[i].t,
         n_cmds |-> Cardinality(members),
         uniq_hp |-> SortedSeq({cmd[i].hp : i \in members})]]

\* Mutant: the ids are kept as they are, without the shift to indices.
HpIndicesUnshifted(uniq_hp) ==
    LET kept == SelectSeq(uniq_hp, LAMBDA hp : 1 <= hp /\ hp <= N_HP)
    IN  IF kept # <<>> THEN kept ELSE [i \in 1..N_HP |-> i - 1]

\* Lines 300-304: the actuator indices monitored for a group.
HpIndices(uniq_hp) ==
    LET kept == SelectSeq(uniq_hp, LAMBDA hp : 1 <= hp /\ hp <= N_HP)
        idx == [i \in 1..Len(kept) |-> kept[i] - 1]
    IN  IF idx # <<>> THEN idx ELSE [i \in 1..N_HP |-> i - 1]

\* Mutant: searchsorted(t_ref, side="right").
AlignRight(sts, t_ref) ==
    IF sts = <<>> THEN None
    ELSE LET pos == Cardinality({i \in 1..Len(sts) : sts[i].t <= t_ref}) + 1
         IN  IF pos > Len(sts) THEN None ELSE Some(sts[pos].t)

\* Lines 110-121: searchsorted(t_ref, side="left").
align_to_status_index(sts, t_ref) ==
    IF sts = <<>> THEN None
    ELSE LET pos == Cardinality({i \in 1..Len(sts) : sts[i].t < t_ref}) + 1
         IN  IF pos > Len(sts) THEN None ELSE Some(sts[pos].t)

\* The value of column testState<i> in a state row.
ChannelValue(row, i) == IF i = 0 THEN row.s0 ELSE NOTTESTED

\* The bin of timestamp t on the resample grid (bins anchored at midnight).
GridFloor(t, sample) == (t \div sample) * sample

\* Line 180: df.resample(sample).ffill(): the grid from the bin of the
\* first row to the bin of the last row, each grid point holding the last
\* row at or before it (index 0: no such row, NaN).
ResampleFfill(df, sample) ==
    LET lo == GridFloor(df[1].t, sample)
        hi == GridFloor(df[Len(df)].t, sample)
        n == ((hi - lo) \div sample) + 1
    IN  [k \in 1..n |->
            LET g == lo + (k - 1) * sample IN
            [t |-> g, src |-> Cardinality({i \in 1..Len(df) : df[i].t <= g})]]

\* Line 160: the monitored columns that the frame has (the state query
\* asks for testState0..testState5, line 85).
StatusCols(hp_indices) == SelectSeq(hp_indices, LAMBDA i : 0 <= i /\ i < N_HP)

\* Mutant: the frame is not cut at start_time + max_duration.
ComputeEndTimeUncut(sts, start_time, hp_indices, max_duration, sample, end_buffer) ==
    IF sts = <<>> THEN None
    ELSE IF StatusCols(hp_indices) = <<>> THEN None
    ELSE LET df == SelectSeq(sts, LAMBDA x : x.t >= start_time - PRE_WINDOW)
         IN
         IF df = <<>> THEN None
         ELSE LET df_rs == SelectSeq(ResampleFfill(df, sample),
                                     LAMBDA p : p.t >= start_time)
                  is_active(p) ==
                      /\ p.src >= 1
                      /\ \E k \in 1..Len(StatusCols(hp_indices)) :
                            ChannelValue(df[p.src], StatusCols(hp_indices)[k])
                                \in ACTIVE_STATES_DEFAULT
                  act == SelectSeq(df_rs, is_active)
              IN  IF df_rs = <<>> THEN None
                  ELSE IF act = <<>> THEN None
                  ELSE Some(act[Len(act)].t + end_buffer)

\* Lines 156-193.
compute_end_time_from_status(sts, start_time, hp_indices, max_duration, sample, end_buffer) ==
    IF sts = <<>> THEN None
    ELSE IF StatusCols(hp_indices) = <<>> THEN None
    ELSE LET t_end_search == start_time + max_duration
             df == InWindow(sts, start_time - PRE_WINDOW, t_end_search)
         IN
         IF df = <<>> THEN None
         ELSE LET df_rs == SelectSeq(ResampleFfill(df, sample),
                                     LAMBDA p : p.t >= start_time)
                  is_active(p) ==
                      /\ p.src >= 1
                      /\ \E k \in 1..Len(StatusCols(hp_indices)) :
                            ChannelValue(df[p.src], StatusCols(hp_indices)[k])
                                \in ACTIVE_STATES_DEFAULT
                  act == SelectSeq(df_rs, is_active)
              IN  IF df_rs = <<>> THEN None
                  ELSE IF act = <<>> THEN None
                  ELSE Some(act[Len(act)].t + end_buffer)

\* Mutant: a window that ends exactly at its start is accepted.
WindowRejectedLax(t1, t0) == t1.none \/ t1.val < t0.val

\* Line 315: `if t1 is None or t1 <= t0: continue`.
WindowRejected(t1, t0) == t1.none \/ t1.val <= t0.val

\* Mutant: no candidate counts as seen.
AlreadySeenNever(key, seen_) == FALSE

\* Lines 318-320: `key = (t0, t1, tuple(hp_indices))`, `if key in seen`.
AlreadySeen(key, seen_) == key \in seen_

\* Line 324: t0.strftime("%Y-%m-%d"), as the number of the day.
DateOf(t) == t \div ScanDayTicks

\* The burst, in the EFD's whole command record, that holds the event at t.
WorldEvent(world_cmds, gap, t) ==
    LET gid == GroupIds(world_cmds, gap)
        i == CHOOSE j \in 1..Len(world_cmds) : world_cmds[j].t = t
    IN  gid[i]

\* Lines 295-332: the loop over the summary rows of one chunk, from row i;
\* acc carries group_rows, seen and the log.
RECURSIVE ProcessGroups(_, _, _, _, _, _)
ProcessGroups(gsum, i, sts, args, ghost, acc) ==
    IF i > Len(gsum) THEN acc
    ELSE
      LET r == gsum[i]
          hp_indices == HpIndices(r.uniq_hp)
          t0 == align_to_status_index(sts, r.reference_time)
          t1 == IF t0.none THEN None
                ELSE compute_end_time_from_status(sts, t0.val, hp_indices,
                        args.max_duration, args.sample, args.end_buffer)
          key == <<t0.val, t1.val, hp_indices>>
          ev == WorldEvent(ghost.cmds, args.group_gap, r.reference_time)
          emit == ~t0.none /\ ~WindowRejected(t1, t0) /\ ~AlreadySeen(key, acc.seen)
          entry == [chunk |-> ghost.chunk, ev |-> ev, t0 |-> t0, t1 |-> t1,
                    hp_indices |-> hp_indices, emitted |-> emit]
          row == [date |-> DateOf(t0.val),
                  group_id |-> r.group_id, t_start |-> t0.val, t_end |-> t1.val,
                  duration |-> t1.val - t0.val, n_cmds |-> r.n_cmds,
                  uniq_hp |-> r.uniq_hp, hp_indices |-> hp_indices,
                  chunk |-> ghost.chunk, ev |-> ev]
      IN  ProcessGroups(gsum, i + 1, sts, args, ghost,
            [rows |-> IF emit THEN Append(acc.rows, row) ELSE acc.rows,
             seen |-> IF emit THEN acc.seen \cup {key} ELSE acc.seen,
             log  |-> Append(acc.log, entry)])

(***************************************************************************)
(* features.py: extract_features_for_groups                                *)
(* Floating-point quantities are fixed-point integers: a stiffness is in   *)
(* tenths of N/um (-0.5 is -5, 100.0 is 1000), a force in N.  NaN is a     *)
(* record with nan = TRUE.                                                 *)
(***************************************************************************)
STIFFNESS_NEG_CLAMP_EPS == -5
STIFFNESS_MAX_ABS == 1000
COMP_BAND_LO == 2981
COMP_BAND_HI == 3959
TENS_BAND_LO == -4420
TENS_BAND_HI == -3456

NaN == [nan |-> TRUE, v |-> 0]
Num(x) == [nan |-> FALSE, v |-> x]

\* np.isfinite(k): the model's numbers are finite unless NaN.
IsFinite(k) == ~k.nan

\* Mutant: the phases are walked in the order of their codes' names.
StateMapByName ==
    << [name |-> "MOVINGNEGATIVE",  val |-> MOVINGNEGATIVE],
       [name |-> "TESTINGNEGATIVE", val |-> TESTINGNEGATIVE],
       [name |-> "TESTINGPOSITIVE", val |-> TESTINGPOSITIVE] >>

\* state_map, in its iteration order (lines 466-470), and STIFF_OK_STATES.
StateMap ==
    << [name |-> "MOVINGNEGATIVE",  val |-> MOVINGNEGATIVE],
       [name |-> "TESTINGPOSITIVE", val |-> TESTINGPOSITIVE],
       [name |-> "TESTINGNEGATIVE", val |-> TESTINGNEGATIVE] >>
STIFF_OK_STATES == {"TESTINGPOSITIVE", "TESTINGNEGATIVE", "MOVINGNEGATIVE"}

\* Mutant: the clamp interval is open at STIFFNESS_NEG_CLAMP_EPS.
StiffnessFilterOpen(k_raw) ==
    IF IsFinite(k_raw) /\ STIFFNESS_NEG_CLAMP_EPS < k_raw.v /\ k_raw.v < 0
    THEN Num(0)
    ELSE IF IsFinite(k_raw) /\ (k_raw.v <= STIFFNESS_NEG_CLAMP_EPS
                                \/ k_raw.v > STIFFNESS_MAX_ABS)
    THEN NaN
    ELSE k_raw

\* Mutant: large stiffness values are kept.
StiffnessFilterNoMax(k_raw) ==
    IF IsFinite(k_raw) /\ STIFFNESS_NEG_CLAMP_EPS <= k_raw.v /\ k_raw.v < 0
    THEN Num(0)
    ELSE IF IsFinite(k_raw) /\ k_raw.v < STIFFNESS_NEG_CLAMP_EPS
    THEN NaN
    ELSE k_raw

\* Mutant: small negative values are kept instead of clamped.
StiffnessFilterKeepNegative(k_raw) ==
    IF IsFinite(k_raw) /\ (k_raw.v < STIFFNESS_NEG_CLAMP_EPS
                           \/ k_raw.v > STIFFNESS_MAX_ABS)
    THEN NaN
    ELSE k_raw

\* Lines 522-529: k_use from k_raw.
StiffnessFilter(k_raw) ==
    IF IsFinite(k_raw) /\ STIFFNESS_NEG_CLAMP_EPS <= k_raw.v /\ k_raw.v < 0
    THEN Num(0)
    ELSE IF IsFinite(k_raw) /\ (k_raw.v < STIFFNESS_NEG_CLAMP_EPS
                                \/ k_raw.v > STIFFNESS_MAX_ABS)
    THEN NaN
    ELSE k_raw

\* Mutant: a filtered stiffness of zero is not accepted.
StiffOkPositive(state_name, k_use) ==
    /\ state_name \in STIFF_OK_STATES
    /\ IsFinite(k_use)
    /\ 0 < k_use.v /\ k_use.v <= STIFFNESS_MAX_ABS

\* Lines 550-554.
StiffOk(state_name, k_use) ==
    /\ state_name \in STIFF_OK_STATES
    /\ IsFinite(k_use)
    /\ 0 <= k_use.v /\ k_use.v <= STIFFNESS_MAX_ABS

\* Mutant: the upper limit of the compression band is excluded.
InBandOpen(f) ==
    LET in_comp == ~f.nan /\ f.v >= COMP_BAND_LO /\ f.v < COMP_BAND_HI
        in_tens == ~f.nan /\ f.v >= TENS_BAND_LO /\ f.v <= TENS_BAND_HI
    IN  in_comp \/ in_tens

\* Lines 573-575: comparisons with NaN are False.
InBand(f) ==
    LET in_comp == ~f.nan /\ f.v >= COMP_BAND_LO /\ f.v <= COMP_BAND_HI
        in_tens == ~f.nan /\ f.v >= TENS_BAND_LO /\ f.v <= TENS_BAND_HI
    IN  in_comp \/ in_tens

\* Lines 563-575: the table-wide pass adding the in_band column.
Classify(rs) ==
    [i \in 1..Len(rs) |->
        [group_id |-> rs[i].group_id, win |-> rs[i].win, hp |-> rs[i].hp,
         state |-> rs[i].state,
         stiffness_raw |-> rs[i].stiffness_raw, stiffness |-> rs[i].stiffness,
         stiff_ok |-> rs[i].stiff_ok, breakaway_force |-> rs[i].breakaway_force,
         elevation_deg |-> rs[i].elevation_deg, azimuth_deg |-> rs[i].azimuth_deg,
         in_band |-> InBand(rs[i].breakaway_force)]]

\* Lines 538-561: the row of (window, actuator, phase) from the stiffness
\* k_raw of stiffness_from_df and the force at the breakaway index.
FeatureRow(win, group_id, hp, state_name, k_raw, ba_force, angles) ==
    LET k_use == StiffnessFilter(k_raw) IN
    [group_id |-> group_id, win |-> win, hp |-> hp, state |-> state_name,
     stiffness_raw |-> k_raw, stiffness |-> k_use,
     stiff_ok |-> StiffOk(state_name, k_use),
     breakaway_force |-> ba_force,
     elevation_deg |-> angles[1], azimuth_deg |-> angles[2]]

\* The outcome of one EFD query for a mount angle: the query raises,
\* returns no data, or returns data with the given median.
AngleQueries(medians) ==
    {[kind |-> "raise", median |-> 0], [kind |-> "empty", median |-> 0]}
    \cup {[kind |-> "data", median |-> m] : m \in medians}

\* No mount-angle query was made.
NoQuery == [kind |-> "none", median |-> 0]

\* Mutant: a raising azimuth query leaves the elevation defined.
FetchAnglesPartial(el_q, az_q) ==
    IF el_q.kind = "raise" THEN <<NaN, NaN>>
    ELSE << IF el_q.kind = "empty" THEN NaN ELSE Num(el_q.median),
            IF az_q.kind # "data" THEN NaN ELSE Num(az_q.median) >>

\* Lines 135-154: the mount angles from the outcomes of the two queries.
fetch_el_az_window(el_q, az_q) ==
    IF el_q.kind = "raise" \/ az_q.kind = "raise" THEN <<NaN, NaN>>
    ELSE << IF el_q.kind = "empty" THEN NaN ELSE Num(el_q.median),
            IF az_q.kind = "empty" THEN NaN ELSE Num(az_q.median) >>

NoTable == [exists |-> FALSE, table |-> <<>>]
Table(t) == [exists |-> TRUE, table |-> t]

\* The loop position after the phase at (idx, hp, ph), or after a skipped
\* actuator (ph = Len(StateMap)) or window (hp = N_HP too).
AfterPhase(idx, hp, ph) ==
    IF ph < Len(StateMap) THEN [pc |-> "phase", idx |-> idx, hp |-> hp, ph |-> ph + 1]
    ELSE IF hp < N_HP THEN [pc |-> "hp", idx |-> idx, hp |-> hp + 1, ph |-> 1]
    ELSE [pc |-> "group", idx |-> idx + 1, hp |-> 1, ph |-> 1]

GoTo(pos) ==
    /\ feat_pc' = pos.pc
    /\ feat_idx' = pos.idx
    /\ feat_hp' = pos.hp
    /\ feat_ph' = pos.ph

\* Raw stiffness values (tenths of N/um) and breakaway forces (N) the
\* telemetry of a phase can yield: each limit of the filters and of the
\* bands, and its two neighbours.
StiffnessValues ==
    {NaN} \cup {Num(x) : x \in {-8, -6, -5, -4, -2, -1, 0, 1, 50, 999, 1000, 1001, 1500}}
ForceValues ==
    {Num(x) : x \in {2980, 2981, 2982, 3500, 3958, 3959, 3960, 0,
                     -4421, -4420, -4419, -4000, -3457, -3456, -3455}}

\* The outcome of one phase: the stiffness fit and, when a breakaway index
\* was found, the force at it (never NaN: the curve went through dropna()).
PhaseCases(ks, fs) == {[k_raw |-> k, ba_force |-> f] : k \in ks, f \in fs \cup {NaN}}

\* The cases of an environment: "values" has every stiffness and force value.
EnvCases(profile) ==
    IF profile = "values" THEN PhaseCases(StiffnessValues, ForceValues)
    ELSE IF profile = "few" THEN PhaseCases({Num(50)}, {})
    ELSE PhaseCases({NaN, Num(50)}, {Num(3500)})

(***************************************************************************)
(* The state of a component that is not exercised by a specification.      *)
(***************************************************************************)
IdleSeg ==
    /\ status_series = <<>>
    /\ seg_t0 = 0
    /\ seg_t1 = 0
    /\ segs = <<>>
    /\ seg_pc = "idle"

IdleBrk ==
    /\ displacement_um = <<>>
    /\ ba_idx = None
    /\ brk_pc = "idle"

IdleFeat ==
    /\ df_groups = <<>>
    /\ overwrite = FALSE
    /\ include_mount_angles = FALSE
    /\ feat_csv = NoTable
    /\ feat_env = [profile |-> "none", max_rows |-> 0, hps |-> {}]
    /\ feat_pc = "idle"
    /\ feat_idx = 0
    /\ feat_hp = 0
    /\ feat_ph = 0
    /\ feat_angles = <<NaN, NaN>>
    /\ feat_angle_q = <<NoQuery, NoQuery>>
    /\ feat_case = [k_raw |-> NaN, ba_force |-> NaN]
    /\ rows = <<>>
    /\ df_feat = <<>>
    /\ feat_queries = 0

IdleChunk ==
    /\ chunk_args = [start |-> 0, end |-> 0, days |-> 0, overlap_hours |-> 0]
    /\ chunk_start = 0
    /\ chunks = <<>>
    /\ chunk_pc = "idle"

IdleCall ==
    /\ call_args = [fn |-> "none"]
    /\ call_result = [fn |-> "none"]
    /\ call_pc = "idle"

IdleScan ==
    /\ scan_world = [cmds |-> <<>>, sts |-> <<>>]
    /\ scan_args = [delta |-> 0, overlap |-> 0, group_gap |-> 0, max_duration |-> 0,
                    sample |-> 0, end_buffer |-> 0]
    /\ scan_chunk_start = 0
    /\ scan_pc = "idle"
    /\ scan_fault = "none"
    /\ group_rows = <<>>
    /\ seen = {}
    /\ scan_log = <<>>
    /\ df_groups_out = <<>>
    /\ df_days_out = <<>>

\* Mutant: a stored table is returned even when overwrite is set.
CacheHitAlways(overwrite_, csv) == csv.exists

\* Line 454: `(not overwrite) and os.path.exists(outpath)`.
CacheHit(overwrite_, csv) == ~overwrite_ /\ csv.exists

\* Lines 450-459: the cache test, before any query.
FeatStart ==
    /\ feat_pc = "start"
    /\ IF CacheHit(overwrite, feat_csv)
       THEN /\ df_feat' = feat_csv.table
            /\ feat_pc' = "done"
            /\ UNCHANGED <<feat_idx, rows>>
       ELSE /\ rows' = <<>>
            /\ feat_idx' = 1
            /\ feat_pc' = "group"
            /\ UNCHANGED df_feat
    /\ UNCHANGED <<df_groups, overwrite, include_mount_angles, feat_csv, feat_env,
                   feat_hp, feat_ph, feat_angles, feat_angle_q, feat_case, feat_queries>>
    /\ UNCHANGED <<segVars, brkVars, chunkVars, scanVars, callVars>>

\* Lines 472-492: one window: the angles, the states, the force/displacement.
BeginGroup ==
    /\ feat_pc = "group"
    /\ feat_idx <= Len(df_groups)
    /\ \E el_q \in AngleQueries({45}), az_q \in AngleQueries({120}),
          sts_empty \in BOOLEAN, act_empty \in BOOLEAN :
          LET nq_angles == IF ~include_mount_angles THEN 0
                           ELSE IF el_q.kind = "raise" THEN 1 ELSE 2
          IN
          /\ feat_angle_q' = IF include_mount_angles
                             THEN <<el_q, IF el_q.kind = "raise" THEN NoQuery ELSE az_q>>
                             ELSE <<NoQuery, NoQuery>>
          /\ feat_angles' = IF include_mount_angles
                            THEN fetch_el_az_window(el_q, az_q)
                            ELSE <<NaN, NaN>>
          /\ IF sts_empty
             THEN /\ feat_queries' = feat_queries + nq_angles + 1
                  /\ GoTo([pc |-> "group", idx |-> feat_idx + 1, hp |-> 1, ph |-> 1])
             ELSE IF act_empty
             THEN /\ feat_queries' = feat_queries + nq_angles + 2
                  /\ GoTo([pc |-> "group", idx |-> feat_idx + 1, hp |-> 1, ph |-> 1])
             ELSE /\ feat_queries' = feat_queries + nq_angles + 2
                  /\ GoTo([pc |-> "hp", idx |-> feat_idx, hp |-> 1, ph |-> 1])
    /\ UNCHANGED <<df_groups, overwrite, include_mount_angles, feat_csv, feat_env,
                   feat_case, rows, df_feat>>
    /\ UNCHANGED <<segVars, brkVars, chunkVars, scanVars, callVars>>

\* Lines 494-511: one actuator: skipped when a column is absent or the
\* curve is empty after dropna(); feat_env.hps are the actuators for which
\* the telemetry may have both.
BeginHp ==
    /\ feat_pc = "hp"
    /\ \E has_data \in (IF feat_hp \in feat_env.hps THEN BOOLEAN ELSE {FALSE}) :
          IF has_data
          THEN GoTo([pc |-> "phase", idx |-> feat_idx, hp |-> feat_hp, ph |-> 1])
          ELSE GoTo(AfterPhase(feat_idx, feat_hp, Len(StateMap)))
    /\ UNCHANGED <<df_groups, overwrite, include_mount_angles, feat_csv, feat_env,
                   feat_angles, feat_angle_q, feat_case, rows, df_feat, feat_queries>>
    /\ UNCHANGED <<segVars, brkVars, chunkVars, scanVars, callVars>>

\* Lines 513-517: a phase whose slice is empty yields no row.
SkipPhase ==
    /\ feat_pc = "phase"
    /\ GoTo(AfterPhase(feat_idx, feat_hp, feat_ph))
    /\ UNCHANGED <<df_groups, overwrite, include_mount_angles, feat_csv, feat_env,
                   feat_angles, feat_angle_q, feat_case, rows, df_feat, feat_queries>>
    /\ UNCHANGED <<segVars, brkVars, chunkVars, scanVars, callVars>>

\* Lines 519-561: a phase with data appends one row.
ProcessPhase ==
    /\ feat_pc = "phase"
    /\ Len(rows) < feat_env.max_rows
    /\ \E c \in EnvCases(feat_env.profile) :
          /\ feat_case' = c
          /\ rows' = Append(rows,
                            FeatureRow(feat_idx, df_groups[feat_idx].group_id, feat_hp,
                                       StateMap[feat_ph].name, c.k_raw, c.ba_force,
                                       feat_angles))
    /\ GoTo(AfterPhase(feat_idx, feat_hp, feat_ph))
    /\ UNCHANGED <<df_groups, overwrite, include_mount_angles, feat_csv, feat_env,
                   feat_angles, feat_angle_q, df_feat, feat_queries>>
    /\ UNCHANGED <<segVars, brkVars, chunkVars, scanVars, callVars>>

\* Lines 563-580: the in_band pass, the write to outpath and the return.
FeatFinish ==
    /\ feat_pc = "group"
    /\ feat_idx > Len(df_groups)
    /\ df_feat' = Classify(rows)
    /\ feat_csv' = Table(Classify(rows))
    /\ feat_pc' = "done"
    /\ UNCHANGED <<df_groups, overwrite, include_mount_angles, feat_env,
                   feat_idx, feat_hp, feat_ph, feat_angles, feat_angle_q, feat_case, rows,
                   feat_queries>>
    /\ UNCHANGED <<segVars, brkVars, chunkVars, scanVars, callVars>>

NextFeat == FeatStart \/ BeginGroup \/ BeginHp \/ SkipPhase \/ ProcessPhase \/ FeatFinish

\* A table left at outpath by an earlier run.
StoredTables ==
    {NoTable, Table(<<>>),
     Table(Classify(<<FeatureRow(1, 0, 1, "TESTINGPOSITIVE", Num(50), Num(3500),
                                 <<NaN, NaN>>)>>))}

\* One window, every stiffness and force value, a budget of one row.
InitFeatRow ==
    /\ IdleCall
    /\ IdleScan
    /\ IdleSeg
    /\ IdleBrk
    /\ IdleChunk
    /\ df_groups \in {<<>>, <<[group_id |-> 0]>>}
    /\ overwrite \in BOOLEAN
    /\ include_mount_angles = FALSE
    /\ feat_csv \in StoredTables
    /\ feat_env = [profile |-> "values", max_rows |-> 1, hps |-> 1..N_HP]
    /\ feat_pc = "start"
    /\ feat_idx = 0
    /\ feat_hp = 0
    /\ feat_ph = 0
    /\ feat_angles = <<NaN, NaN>>
    /\ feat_angle_q = <<NoQuery, NoQuery>>
    /\ feat_case = [k_raw |-> NaN, ba_force |-> NaN]
    /\ rows = <<>>
    /\ df_feat = <<>>
    /\ feat_queries = 0

SpecFeatRow == InitFeatRow /\ [][NextFeat]_vars

\* Window tables as the scanner returns them: group_id is the number of
\* the burst inside its chunk (scan_status.py line 280), so it starts again
\* at 0 in every chunk.
WindowTables ==
    UNION { [1..n -> [group_id : 0..1]] : n \in 0..MaxWindows }

\* Up to MaxWindows windows, mount angles on or off, a few phase outcomes,
\* a budget of MaxRows rows.
InitFeat ==
    /\ IdleCall
    /\ IdleScan
    /\ IdleSeg
    /\ IdleBrk
    /\ IdleChunk
    /\ df_groups \in WindowTables
    /\ overwrite = TRUE
    /\ include_mount_angles \in BOOLEAN
    /\ feat_csv \in {NoTable, Table(<<>>)}
    /\ feat_env \in {[profile |-> "few", max_rows |-> MaxRows, hps |-> h] :
                        h \in {{1}, {N_HP}}}
    /\ feat_pc = "start"
    /\ feat_idx = 0
    /\ feat_hp = 0
    /\ feat_ph = 0
    /\ feat_angles = <<NaN, NaN>>
    /\ feat_angle_q = <<NoQuery, NoQuery>>
    /\ feat_case = [k_raw |-> NaN, ba_force |-> NaN]
    /\ rows = <<>>
    /\ df_feat = <<>>
    /\ feat_queries = 0

SpecFeat == InitFeat /\ [][NextFeat]_vars

(***************************************************************************)
(* Inputs of the segmenter: a state column as fetch_status_window returns  *)
(* it (ensure_utc_index: sorted by timestamp), with NaN cells.             *)
(***************************************************************************)
SegTimes == 0..MaxT
SegCodes == {MOVINGNEGATIVE, TESTINGPOSITIVE}

SegSeries ==
    UNION {{[i \in 1..n |-> IF vs[i] = 0 THEN NaSample(ts[i]) ELSE Sample(ts[i], vs[i])] :
              ts \in IncSeqs(0, MaxT, n), vs \in SeqsOfLen(SegCodes \cup {0}, n)} :
           n \in 0..MaxLen}

InitSeg ==
    /\ IdleCall
    /\ IdleScan
    /\ IdleBrk
    /\ IdleFeat
    /\ IdleChunk
    /\ status_series \in SegSeries
    /\ seg_t0 \in SegTimes
    /\ seg_t1 \in SegTimes
    /\ segs = <<>>
    /\ seg_pc = "call"

BuildStateSegments ==
    /\ seg_pc = "call"
    /\ segs' = build_state_segments(status_series, seg_t0, seg_t1)
    /\ seg_pc' = "done"
    /\ UNCHANGED <<status_series, seg_t0, seg_t1>>
    /\ UNCHANGED <<brkVars, featVars, chunkVars, scanVars, callVars>>

NextSeg == BuildStateSegments

SpecSeg == InitSeg /\ [][NextSeg]_vars

\* The real (non-missing) samples of the input inside [t0, t1], in time order.
RealInWindow == InWindow(SortIndex(DropNa(status_series)), seg_t0, seg_t1)

(***************************************************************************)
(* C1: for a state series with at least one non-missing sample inside      *)
(* [t0, t1], the segments are in chronological order, the first starts at  *)
(* t0, the last ends at t1, and each segment ends where the next starts.   *)
(***************************************************************************)
C1_SegmentsContiguous ==
    (seg_pc = "done" /\ RealInWindow # <<>>) =>
        /\ Len(segs) >= 1
        /\ segs[1].a = seg_t0
        /\ segs[Len(segs)].b = seg_t1
        /\ \A k \in 1..Len(segs) : segs[k].a <= segs[k].b
        /\ \A k \in 1..(Len(segs) - 1) : segs[k].b = segs[k + 1].a

\* Both edges are synthesized and the series changes state inside the window.
C1_Witness ==
    /\ seg_pc = "done"
    /\ RealInWindow # <<>>
    /\ RealInWindow[1].t > seg_t0
    /\ RealInWindow[Len(RealInWindow)].t < seg_t1
    /\ Len(segs) >= 2

(***************************************************************************)
(* C9: the synthesized boundary samples hold the nearest known state: the  *)
(* first segment carries the state of the earliest real sample inside      *)
(* [t0, t1], the last segment the state of the latest one (a real sample   *)
(* exactly on t1 keeps its own state).                                     *)
(***************************************************************************)
C9_BoundaryStates ==
    (seg_pc = "done" /\ RealInWindow # <<>>) =>
        /\ Len(segs) >= 1
        /\ segs[1].st = RealInWindow[1].v
        /\ segs[Len(segs)].st = RealInWindow[Len(RealInWindow)].v

(***************************************************************************)
(* The breakaway detector applied to one displacement series.              *)
(***************************************************************************)
InitBrk ==
    /\ IdleCall
    /\ IdleScan
    /\ IdleSeg
    /\ IdleFeat
    /\ IdleChunk
    /\ displacement_um \in DispSeries
    /\ ba_idx = None
    /\ brk_pc = "call"

FindBreakawayIndex ==
    /\ brk_pc = "call"
    /\ ba_idx' = find_breakaway_index(displacement_um)
    /\ brk_pc' = "done"
    /\ UNCHANGED displacement_um
    /\ UNCHANGED <<segVars, featVars, chunkVars, scanVars, callVars>>

NextBrk == FindBreakawayIndex

SpecBrk == InitBrk /\ [][NextBrk]_vars

\* Sample at 0-based position p is flagged: |d[p] - d[p-1]| > 1.0, p >= 1.
Flagged(p) ==
    /\ p >= 1
    /\ p < Len(displacement_um)
    /\ Abs(displacement_um[p + 1] - displacement_um[p]) > 1

\* p is the first sample of a run of at least 3 consecutive flagged samples.
RunStart(p) ==
    /\ Flagged(p) /\ Flagged(p + 1) /\ Flagged(p + 2)
    /\ ~Flagged(p - 1)

(***************************************************************************)
(* C5: find_breakaway_index returns the position of the first sample of    *)
(* the earliest run of at least 3 consecutive flagged samples (sample 0 is *)
(* never flagged), and none when there is no such run or the series is     *)
(* empty; [0,0,0,0,2,4,6,0,0] gives 4 and [0,0,3,0,0] gives none.          *)
(***************************************************************************)
C5_BreakawayIndex ==
    brk_pc = "done" =>
        LET starts == {p \in 0..Len(displacement_um) : RunStart(p)} IN
        /\ (starts = {}) => ba_idx = None
        /\ (starts # {}) =>
              /\ ~ba_idx.none
              /\ ba_idx.val \in starts
              /\ \A q \in starts : ba_idx.val <= q
        /\ (displacement_um = <<0, 0, 0, 0, 2, 4, 6, 0, 0>>) => ba_idx = Some(4)
        /\ (displacement_um = <<0, 0, 3, 0, 0>>) => ba_idx = None

\* A short flagged run is broken before a run of three is found.
C5_Witness ==
    /\ brk_pc = "done"
    /\ ~ba_idx.none
    /\ \E q \in 1..(ba_idx.val - 2) : Flagged(q)

\* The rows appended so far and the rows of the returned table.
AllFeatureRows == Range(rows) \cup Range(df_feat)

(***************************************************************************)
(* C6: post-fit filtering of the raw stiffness k of a row: -0.5 <= k < 0   *)
(* gives 0.0; k < -0.5 or k > 100.0 gives undefined; 0 <= k <= 100.0 is    *)
(* kept; an undefined k stays undefined; the raw value is stored unchanged *)
(* in its own column.  (Stiffness in tenths of N/um.)                      *)
(***************************************************************************)
C6_StiffnessFilter ==
    /\ \A r \in AllFeatureRows :
          LET k == r.stiffness_raw
              u == r.stiffness
          IN  /\ (~k.nan /\ -5 <= k.v /\ k.v < 0) => u = Num(0)
              /\ (~k.nan /\ (k.v < -5 \/ k.v > 1000)) => u = NaN
              /\ (~k.nan /\ 0 <= k.v /\ k.v <= 1000) => u = k
              /\ k.nan => u = NaN
    /\ rows # <<>> => rows[Len(rows)].stiffness_raw = feat_case.k_raw

\* A returned row whose raw stiffness was clamped, one whose raw stiffness
\* was discarded.
C6_Witness ==
    /\ feat_pc = "done"
    /\ \E i \in 1..Len(df_feat) :
          /\ df_feat[i].stiffness_raw = Num(1001)
          /\ df_feat[i].stiffness = NaN
          /\ feat_case.k_raw = Num(1001)

(***************************************************************************)
(* C7 (as stated): a raw stiffness of exactly -0.5 N/um is discarded: its  *)
(* filtered stiffness is undefined, not clamped to 0.0.                    *)
(***************************************************************************)
C7_BoundaryDiscarded ==
    \A r \in AllFeatureRows : r.stiffness_raw = Num(-5) => r.stiffness = NaN

(***************************************************************************)
(* C7 (amended): a raw stiffness of exactly -0.5 N/um falls to the clamp   *)
(* branch: its filtered stiffness is 0.0; the next value below it is       *)
(* discarded.                                                              *)
(***************************************************************************)
C7_BoundaryClamped ==
    \A r \in AllFeatureRows :
        /\ r.stiffness_raw = Num(-5) => r.stiffness = Num(0)
        /\ r.stiffness_raw = Num(-6) => r.stiffness = NaN

C7_Witness ==
    /\ feat_pc = "done"
    /\ \E i \in 1..Len(df_feat) :
          df_feat[i].stiffness_raw = Num(-5) /\ df_feat[i].stiffness = Num(0)

(***************************************************************************)
(* C8: in the returned table a row has in_band = TRUE exactly when its     *)
(* breakaway force is a defined number in the closed compression band      *)
(* [2981, 3959] N or in the closed tension band [-4420, -3456] N; a row    *)
(* with an undefined breakaway force has in_band = FALSE.                  *)
(***************************************************************************)
C8_BandClassification ==
    feat_pc = "done" =>
        \A i \in 1..Len(df_feat) :
            LET f == df_feat[i].breakaway_force IN
            /\ df_feat[i].in_band <=>
                  /\ ~f.nan
                  /\ \/ (2981 <= f.v /\ f.v <= 3959)
                     \/ (-4420 <= f.v /\ f.v <= -3456)
            /\ f.nan => ~df_feat[i].in_band

\* A recomputed table with a row on the upper limit of the compression band.
C8_Witness ==
    /\ feat_pc = "done"
    /\ rows # <<>>
    /\ \E i \in 1..Len(df_feat) :
          df_feat[i].breakaway_force = Num(3959) /\ df_feat[i].in_band

(***************************************************************************)
(* The generator chunk_ranges_utc, one loop iteration per step.  The log   *)
(* of yielded chunks stops growing at MaxChunks entries, more than any     *)
(* run that advances can yield.                                            *)
(***************************************************************************)
MaxChunks == MaxHours + 2
OverlapChoices == {0, 1, 12, 23, 24, 25, 47, 48, 49, 72}

InitChunk ==
    /\ IdleCall
    /\ IdleScan
    /\ IdleSeg
    /\ IdleBrk
    /\ IdleFeat
    /\ chunk_args \in [start : 0..1, end : 0..MaxHours, days : 0..MaxDays,
                       overlap_hours : OverlapChoices]
    /\ chunk_start = chunk_args.start
    /\ chunks = <<>>
    /\ chunk_pc = "loop"

\* Lines 76-81: the while test, the yield, the break test, the advance.
ChunkStep ==
    /\ chunk_pc = "loop"
    /\ LET delta == DaysDelta(chunk_args.days)
           chunk_end == ChunkEnd(chunk_start, delta, chunk_args.end)
       IN  IF chunk_start < chunk_args.end
           THEN /\ chunks' = IF Len(chunks) < MaxChunks
                             THEN Append(chunks, [lo |-> chunk_start, hi |-> chunk_end])
                             ELSE chunks
                /\ IF chunk_end >= chunk_args.end
                   THEN chunk_pc' = "done" /\ UNCHANGED chunk_start
                   ELSE /\ chunk_start' = NextChunkStart(chunk_end, delta,
                                                         chunk_args.overlap_hours)
                        /\ UNCHANGED chunk_pc
           ELSE /\ chunk_pc' = "done"
                /\ UNCHANGED <<chunk_start, chunks>>
    /\ UNCHANGED chunk_args
    /\ UNCHANGED <<segVars, brkVars, featVars, scanVars, callVars>>

NextChunk == ChunkStep

\* The generator is driven until exhausted: list(...) or a for loop.
SpecChunk == InitChunk /\ [][NextChunk]_vars /\ WF_vars(NextChunk)

\* The yielded chunks cover [start, end]: every instant and every interval
\* between two consecutive hours lies inside some chunk.
ChunksCover ==
    /\ \A t \in chunk_args.start..chunk_args.end :
          \E i \in 1..Len(chunks) : chunks[i].lo <= t /\ t <= chunks[i].hi
    /\ \A t \in chunk_args.start..(chunk_args.end - 1) :
          \E i \in 1..Len(chunks) : chunks[i].lo <= t /\ t + 1 <= chunks[i].hi

ChunkingFinished == chunk_pc = "done" /\ Len(chunks) < MaxChunks /\ ChunksCover

ScanHpIds == {1, 7}
ScanStates == {NOTTESTED, MOVINGNEGATIVE}

\* The sequences over the strictly increasing timestamps ts, each timestamp
\* paired with a payload from P.
StampedSeqs(maxlen, P) ==
    UNION {
        UNION { { [i \in 1..n |-> <<ts[i], ps[i]>>] : ps \in SeqsOfLen(P, n) }
                : ts \in IncSeqs(0, ScanMaxT, n) }
        : n \in 0..maxlen }

MkCmd(t, hp) == [t |-> t, hp |-> hp]
MkStatus(t, s0) == [t |-> t, s0 |-> s0]

\* The command events and the state rows the EFD may hold.
CmdRecords ==
    { [i \in DOMAIN s |-> MkCmd(s[i][1], s[i][2])] : s \in StampedSeqs(MaxCmds, ScanHpIds) }
StatusRecords ==
    { [i \in DOMAIN s |-> MkStatus(s[i][1], s[i][2])] :
        s \in StampedSeqs(MaxStatus, ScanStates) }

\* The Timedelta arguments tried, in ticks: chunk size and overlap, group
\* gap, max_duration, sample, end_buffer.
ScanArgs ==
    { [start |-> 0, end |-> ScanMaxT, delta |-> ScanDayTicks, overlap |-> 1, group_gap |-> 1,
       max_duration |-> 2, sample |-> 1, end_buffer |-> 1],
      [start |-> 0, end |-> ScanMaxT, delta |-> ScanDayTicks, overlap |-> 1, group_gap |-> 1,
       max_duration |-> 2, sample |-> 2, end_buffer |-> 0],
      [start |-> 0, end |-> ScanMaxT, delta |-> ScanDayTicks, overlap |-> 1, group_gap |-> 0,
       max_duration |-> 2, sample |-> 1, end_buffer |-> 1] }

InitScan ==
    /\ IdleCall
    /\ IdleSeg
    /\ IdleBrk
    /\ IdleFeat
    /\ IdleChunk
    /\ scan_world \in [cmds : CmdRecords, sts : StatusRecords]
    /\ scan_args \in ScanArgs
    /\ scan_chunk_start = scan_args.start
    /\ scan_pc = "chunk"
    /\ scan_fault = "none"
    /\ group_rows = <<>>
    /\ seen = {}
    /\ scan_log = <<>>
    /\ df_groups_out = <<>>
    /\ df_days_out = <<>>

\* Lines 76-81 of utils.py as driven by the for loop of line 266: where the
\* loop goes after the pass over the chunk that ends at chunk_end.
ScanAdvance(chunk_end) ==
    IF chunk_end >= scan_args.end
    THEN scan_pc' = "finish" /\ UNCHANGED scan_chunk_start
    ELSE /\ scan_chunk_start' = NextChunkStart(chunk_end, scan_args.delta,
                                               scan_args.overlap)
         /\ UNCHANGED scan_pc

\* Lines 266-332: one chunk whose queries return.
ScanChunk ==
    /\ scan_pc = "chunk"
    /\ IF scan_chunk_start < scan_args.end
       THEN LET chunk_end == ChunkEnd(scan_chunk_start, scan_args.delta, scan_args.end)
                cmd == FetchRange(scan_world.cmds, scan_chunk_start, chunk_end)
                sts == FetchRange(scan_world.sts, scan_chunk_start, chunk_end)
                gsum == GroupSummary(cmd, GroupIds(cmd, scan_args.group_gap))
                acc == IF cmd = <<>> \/ sts = <<>>
                       THEN [rows |-> group_rows, seen |-> seen, log |-> scan_log]
                       ELSE ProcessGroups(gsum, 1, sts, scan_args,
                                [cmds |-> scan_world.cmds, chunk |-> scan_chunk_start],
                                [rows |-> group_rows, seen |-> seen, log |-> scan_log])
            IN  /\ group_rows' = acc.rows
                /\ seen' = acc.seen
                /\ scan_log' = acc.log
                /\ ScanAdvance(chunk_end)
       ELSE /\ scan_pc' = "finish"
            /\ UNCHANGED <<scan_chunk_start, group_rows, seen, scan_log>>
    /\ scan_fault' = "none"
    /\ UNCHANGED <<scan_world, scan_args, df_groups_out, df_days_out>>
    /\ UNCHANGED <<segVars, brkVars, featVars, chunkVars, callVars>>

\* Lines 268-275: a query of the chunk raises.  Neither fetch function nor
\* the loop has an exception handler: the exception leaves the scan.  The
\* state query is only made when the command query returned events.
ScanFetchRaises ==
    /\ scan_pc = "chunk"
    /\ scan_chunk_start < scan_args.end
    /\ LET chunk_end == ChunkEnd(scan_chunk_start, scan_args.delta, scan_args.end)
           cmd == FetchRange(scan_world.cmds, scan_chunk_start, chunk_end)
       IN  \E q \in {"cmd", "sts"} :
              /\ q = "sts" => cmd # <<>>
              /\ scan_fault' = q
    /\ scan_pc' = "raised"
    /\ UNCHANGED <<scan_world, scan_args, scan_chunk_start, group_rows, seen,
                   scan_log, df_groups_out, df_days_out>>
    /\ UNCHANGED <<segVars, brkVars, featVars, chunkVars, callVars>>

\* Mutant: the rows stay in the order in which they were appended.
SortRowsNone(rs) == rs

\* Lines 337-341: sort_values(["date", "t_start_utc"]), a stable sort.
SortRows(rs) ==
    LET Before(x, y) == x.date < y.date \/ (x.date = y.date /\ x.t_start <= y.t_start)
        F[n \in 0..Len(rs)] ==
            IF n = 0 THEN <<>>
            ELSE LET x == rs[n]
                 IN  SelectSeq(F[n - 1], LAMBDA r : Before(r, x)) \o <<x>>
                        \o SelectSeq(F[n - 1], LAMBDA r : ~Before(r, x))
    IN  F[Len(rs)]

\* Sum of a sequence of numbers.
SumOver(xs) ==
    LET F[n \in 0..Len(xs)] == IF n = 0 THEN 0 ELSE F[n - 1] + xs[n]
    IN  F[Len(xs)]

\* Line 346: n_groups=("group_id", "nunique").
CountGroups(day_rows) == Cardinality({day_rows[i].group_id : i \in 1..Len(day_rows)})

\* Lines 343-358: one row per date, in ascending date (the mean and the
\* month and hour columns, derived from these, are left out).
DaysTable(groups) ==
    LET dates == SortedSeq({groups[i].date : i \in 1..Len(groups)})
    IN  [k \in 1..Len(dates) |->
            LET day_rows == SelectSeq(groups, LAMBDA r : r.date = dates[k])
                dur == [i \in 1..Len(day_rows) |-> day_rows[i].duration]
                cmds == [i \in 1..Len(day_rows) |-> day_rows[i].n_cmds]
            IN  [date |-> dates[k],
                 n_groups |-> CountGroups(day_rows),
                 total_duration |-> SumOver(dur),
                 first_test |-> CHOOSE t \in {day_rows[i].t_start : i \in 1..Len(day_rows)} :
                                   \A i \in 1..Len(day_rows) : t <= day_rows[i].t_start,
                 last_test |-> CHOOSE t \in {day_rows[i].t_end : i \in 1..Len(day_rows)} :
                                  \A i \in 1..Len(day_rows) : t >= day_rows[i].t_end,
                 n_cmds |-> SumOver(cmds)]]

\* Lines 334-368: the returned tables.
ScanFinish ==
    /\ scan_pc = "finish"
    /\ df_groups_out' = IF group_rows = <<>> THEN <<>> ELSE SortRows(group_rows)
    /\ df_days_out' = IF group_rows = <<>> THEN <<>> ELSE DaysTable(SortRows(group_rows))
    /\ scan_pc' = "done"
    /\ UNCHANGED <<scan_world, scan_args, scan_chunk_start, scan_fault, group_rows,
                   seen, scan_log>>
    /\ UNCHANGED <<segVars, brkVars, featVars, chunkVars, callVars>>

NextScan == ScanChunk \/ ScanFetchRaises \/ ScanFinish

SpecScan == InitScan /\ [][NextScan]_vars

\* The chunks (by their start) whose pass processed a command group of the
\* event ev.
ChunksOf(ev) == {scan_log[i].chunk : i \in {j \in 1..Len(scan_log) : scan_log[j].ev = ev}}

\* The rows of the returned table that belong to the event ev.
WindowsOf(ev) == {i \in 1..Len(df_groups_out) : df_groups_out[i].ev = ev}

\* C2: a test event that lies in the overlap of two chunks, and is so
\* processed twice, has at most one window in the returned table (exactly one
\* when a window was detected for it).
C2_OneWindowPerEvent ==
    scan_pc = "done" =>
        \A i \in 1..Len(scan_log) :
            Cardinality(ChunksOf(scan_log[i].ev)) >= 2 =>
                Cardinality(WindowsOf(scan_log[i].ev)) <= 1

\* C4: when a query of a chunk raises, the scan is not aborted: the chunk is
\* skipped, the windows accumulated so far are kept and the scan goes on to
\* the next chunk or to the final table.
C4_FetchFailureSkipsChunk ==
    [][scan_fault' # "none" =>
          /\ scan_pc' \in {"chunk", "finish"}
          /\ group_rows' = group_rows]_vars

\* C10: every window of the scanner's output has t_end > t_start, and a
\* command group whose alignment failed, whose end detection failed or whose
\* detected end is not after its start produced no window.
C10_WindowEndsAfterStart ==
    /\ \A i \in 1..Len(group_rows) : group_rows[i].t_end > group_rows[i].t_start
    /\ \A i \in 1..Len(df_groups_out) :
          df_groups_out[i].t_end > df_groups_out[i].t_start
    /\ \A i \in 1..Len(scan_log) :
          (scan_log[i].t0.none \/ scan_log[i].t1.none
             \/ scan_log[i].t1.val <= scan_log[i].t0.val) => ~scan_log[i].emitted

\* The scan returned a window, and it dropped a group whose end detection
\* failed and a group whose detected end was its start.
C10_Witness ==
    /\ scan_pc = "done"
    /\ df_groups_out # <<>>
    /\ \E i \in 1..Len(scan_log) : ~scan_log[i].t0.none /\ scan_log[i].t1.none
    /\ \E i \in 1..Len(scan_log) :
          /\ ~scan_log[i].t0.none /\ ~scan_log[i].t1.none
          /\ scan_log[i].t1.val <= scan_log[i].t0.val
          /\ ~scan_log[i].emitted

(***************************************************************************)
(* utils.py: group_by_gaps called on its own.                              *)
(***************************************************************************)
\* Lines 99-102: the frame with the group_id column attached; an empty
\* frame is returned as it is.
group_by_gaps(df, gap) ==
    IF df = <<>> THEN df
    ELSE LET gid == GroupIds(df, gap)
         IN  [i \in 1..Len(df) |-> [t |-> df[i].t, hp |-> df[i].hp, group_id |-> gid[i]]]

\* The sequences of n timestamps of lo..hi in non-decreasing order.
SortedStamps(lo, hi, n) ==
    {ts \in SeqsOfLen(lo..hi, n) : \A i \in 1..(n - 1) : ts[i] <= ts[i + 1]}

\* The sorted event frames of at most MaxLen events.
EventFrames ==
    UNION { UNION { { [i \in 1..n |-> MkCmd(ts[i], hs[i])] : hs \in SeqsOfLen(ScanHpIds, n) }
                    : ts \in SortedStamps(0, MaxT, n) }
            : n \in 0..MaxLen }

InitGroup ==
    /\ IdleSeg
    /\ IdleBrk
    /\ IdleFeat
    /\ IdleChunk
    /\ IdleScan
    /\ call_args \in [fn : {"group_by_gaps"}, df : EventFrames, gap : 0..MaxT]
    /\ call_result = [fn |-> "none"]
    /\ call_pc = "call"

GroupByGaps ==
    /\ call_pc = "call"
    /\ call_args.fn = "group_by_gaps"
    /\ call_result' = [fn |-> "group_by_gaps",
                      df |-> group_by_gaps(call_args.df, call_args.gap)]
    /\ call_pc' = "returned"
    /\ UNCHANGED call_args
    /\ UNCHANGED <<segVars, brkVars, featVars, chunkVars, scanVars>>

NextGroup == GroupByGaps

SpecGroup == InitGroup /\ [][NextGroup]_vars

\* C11: group_by_gaps keeps the events and their order, gives the first
\* event group 0 and each later event the group of the event before it, plus
\* one exactly when its gap to that event is strictly above the threshold;
\* an empty frame comes back empty.
C11_GroupByGaps ==
    call_pc = "returned" =>
        LET df == call_args.df
            out == call_result.df
        IN  /\ Len(out) = Len(df)
            /\ df = <<>> => out = <<>>
            /\ \A i \in 1..Len(df) : out[i].t = df[i].t /\ out[i].hp = df[i].hp
            /\ df # <<>> => out[1].group_id = 0
            /\ \A i \in 2..Len(df) :
                  out[i].group_id =
                      IF df[i].t - df[i - 1].t > call_args.gap
                      THEN out[i - 1].group_id + 1
                      ELSE out[i - 1].group_id

\* A call returned on a frame with one gap equal to a positive threshold
\* and one gap above it.
C11_Witness ==
    /\ call_pc = "returned"
    /\ call_args.gap > 0
    /\ \E i \in 2..Len(call_args.df) :
          /\ call_args.df[i].t - call_args.df[i - 1].t = call_args.gap
          /\ call_result.df[i].group_id = call_result.df[i - 1].group_id
    /\ \E i \in 2..Len(call_args.df) :
          /\ call_args.df[i].t - call_args.df[i - 1].t > call_args.gap
          /\ call_result.df[i].group_id = call_result.df[i - 1].group_id + 1

(***************************************************************************)
(* scan_status.py: align_to_status_index called on its own.                *)
(***************************************************************************)
\* The sorted state frames of at most MaxLen rows.
StatusFrames ==
    UNION { UNION { { [i \in 1..n |-> MkStatus(ts[i], vs[i])] : vs \in SeqsOfLen(ScanStates, n) }
                    : ts \in SortedStamps(0, MaxT, n) }
            : n \in 0..MaxLen }

InitAlign ==
    /\ IdleSeg
    /\ IdleBrk
    /\ IdleFeat
    /\ IdleChunk
    /\ IdleScan
    /\ call_args \in [fn : {"align_to_status_index"}, sts : StatusFrames,
                      t_ref : 0..(MaxT + 1)]
    /\ call_result = [fn |-> "none"]
    /\ call_pc = "call"

AlignToStatusIndex ==
    /\ call_pc = "call"
    /\ call_args.fn = "align_to_status_index"
    /\ call_result' = [fn |-> "align_to_status_index",
                      t |-> align_to_status_index(call_args.sts, call_args.t_ref)]
    /\ call_pc' = "returned"
    /\ UNCHANGED call_args
    /\ UNCHANGED <<segVars, brkVars, featVars, chunkVars, scanVars>>

NextAlign == AlignToStatusIndex

SpecAlign == InitAlign /\ [][NextAlign]_vars

\* C12: align_to_status_index returns the earliest sample timestamp that is
\* at or after t_ref (a sample exactly at t_ref is returned), and no match
\* when the series is empty or all of it is before t_ref.
C12_AlignToStatusIndex ==
    call_pc = "returned" =>
        LET later == {t \in {call_args.sts[i].t : i \in 1..Len(call_args.sts)} :
                         t >= call_args.t_ref}
        IN  IF later = {}
            THEN call_result.t.none
            ELSE /\ ~call_result.t.none
                 /\ call_result.t.val \in later
                 /\ \A t \in later : call_result.t.val <= t

\* A call returned the sample lying exactly at t_ref, samples before and
\* after it being present.
C12_Witness ==
    /\ call_pc = "returned"
    /\ call_args.fn = "align_to_status_index"
    /\ ~call_result.t.none
    /\ call_result.t.val = call_args.t_ref
    /\ \E i \in 1..Len(call_args.sts) : call_args.sts[i].t < call_args.t_ref
    /\ \E i \in 1..Len(call_args.sts) : call_args.sts[i].t > call_args.t_ref

(***************************************************************************)
(* scan_status.py: compute_end_time_from_status called on its own, with    *)
(* the start time the scanner passes: a timestamp of the state frame.      *)
(***************************************************************************)
EndHpIndices == {<<0>>, <<1>>, <<0, 1>>, <<N_HP + 1>>}

EndStartTimes(sts) == IF sts = <<>> THEN {0} ELSE {sts[i].t : i \in 1..Len(sts)}

InitEnd ==
    /\ IdleSeg
    /\ IdleBrk
    /\ IdleFeat
    /\ IdleChunk
    /\ IdleScan
    /\ \E sts \in StatusRecords :
          call_args \in [fn : {"compute_end_time_from_status"}, sts : {sts},
                         start_time : EndStartTimes(sts), hp_indices : EndHpIndices,
                         max_duration : 1..2, sample : 1..2, end_buffer : 0..1]
    /\ call_result = [fn |-> "none"]
    /\ call_pc = "call"

ComputeEndTimeFromStatus ==
    /\ call_pc = "call"
    /\ call_args.fn = "compute_end_time_from_status"
    /\ call_result' = [fn |-> "compute_end_time_from_status",
                      t |-> compute_end_time_from_status(call_args.sts,
                                call_args.start_time, call_args.hp_indices,
                                call_args.max_duration, call_args.sample,
                                call_args.end_buffer)]
    /\ call_pc' = "returned"
    /\ UNCHANGED call_args
    /\ UNCHANGED <<segVars, brkVars, featVars, chunkVars, scanVars>>

NextEnd == ComputeEndTimeFromStatus

SpecEnd == InitEnd /\ [][NextEnd]_vars

\* The grid timestamps of [start, start + max_duration] at which a monitored
\* channel of the frame, forward-filled from its last sample, is active.
ActiveGridPoints(a) ==
    {g \in a.start_time..(a.start_time + a.max_duration) :
        /\ g % a.sample = 0
        /\ \E i \in 1..Len(a.sts) :
              /\ a.sts[i].t <= g
              /\ \A j \in 1..Len(a.sts) : a.sts[j].t <= g => a.sts[j].t <= a.sts[i].t
              /\ \E k \in 1..Len(a.hp_indices) :
                    /\ a.hp_indices[k] \in 0..(N_HP - 1)
                    /\ ChannelValue(a.sts[i], a.hp_indices[k]) \in ACTIVE_STATES_DEFAULT}

\* C13: compute_end_time_from_status returns the last grid timestamp of
\* [start, start + max_duration] at which a monitored channel, forward-filled
\* from its last sample, holds an active state, plus the end buffer; it
\* returns no activity when there is no such grid point (which covers an
\* empty frame and monitored channels that the frame lacks).
C13_EndTimeOverGrid ==
    call_pc = "returned" =>
        LET act == ActiveGridPoints(call_args)
        IN  IF act = {}
            THEN call_result.t.none
            ELSE /\ ~call_result.t.none
                 /\ call_result.t.val - call_args.end_buffer \in act
                 /\ \A g \in act : g <= call_result.t.val - call_args.end_buffer

(***************************************************************************)
(* features.py: pick_longest_segment called on its own.                    *)
(***************************************************************************)
NoSegment == [none |-> TRUE, a |-> 0, b |-> 0]

\* Mutant: among candidates of equal duration the last one is kept.
MaxByDurationLast(cands, i, best) ==
    LET F[k \in i..(Len(cands) + 1), bst \in 1..Len(cands)] ==
            IF k > Len(cands) THEN bst
            ELSE IF cands[k].b - cands[k].a >= cands[bst].b - cands[bst].a
                 THEN F[k + 1, k] ELSE F[k + 1, bst]
    IN  F[i, best]

\* max(cands, key=duration) from candidate i on, best being the index kept
\* so far: a later candidate replaces it only when strictly longer.
MaxByDuration(cands, i, best) ==
    LET F[k \in i..(Len(cands) + 1), bst \in 1..Len(cands)] ==
            IF k > Len(cands) THEN bst
            ELSE IF cands[k].b - cands[k].a > cands[bst].b - cands[bst].a
                 THEN F[k + 1, k] ELSE F[k + 1, bst]
    IN  F[i, best]

\* Lines 221-222.
pick_longest_segment(segs_, target_state) ==
    LET cands == SelectSeq(segs_, LAMBDA x : x.st = target_state /\ x.b > x.a)
    IN  IF cands = <<>> THEN NoSegment
        ELSE LET m == cands[MaxByDuration(cands, 2, 1)]
             IN  [none |-> FALSE, a |-> m.a, b |-> m.b]

\* Segment lists as build_state_segments lays them out: consecutive
\* intervals between non-decreasing boundaries, each with a state.
SegmentLists ==
    UNION { UNION { { [k \in 1..n |-> [a |-> bs[k], b |-> bs[k + 1], st |-> sts[k]]]
                      : sts \in SeqsOfLen({MOVINGNEGATIVE, TESTINGPOSITIVE}, n) }
                    : bs \in SortedStamps(0, MaxT, n + 1) }
            : n \in 0..MaxLen }

InitPick ==
    /\ IdleSeg
    /\ IdleBrk
    /\ IdleFeat
    /\ IdleChunk
    /\ IdleScan
    /\ call_args \in [fn : {"pick_longest_segment"}, segs : SegmentLists,
                      target_state : {MOVINGNEGATIVE, TESTINGPOSITIVE}]
    /\ call_result = [fn |-> "none"]
    /\ call_pc = "call"

PickLongestSegment ==
    /\ call_pc = "call"
    /\ call_args.fn = "pick_longest_segment"
    /\ call_result' = [fn |-> "pick_longest_segment",
                      seg |-> pick_longest_segment(call_args.segs, call_args.target_state)]
    /\ call_pc' = "returned"
    /\ UNCHANGED call_args
    /\ UNCHANGED <<segVars, brkVars, featVars, chunkVars, scanVars>>

NextPick == PickLongestSegment

SpecPick == InitPick /\ [][NextPick]_vars

\* The positions of the list holding a segment of the target state and of
\* positive duration.
Candidates(a) ==
    {i \in 1..Len(a.segs) : a.segs[i].st = a.target_state /\ a.segs[i].b > a.segs[i].a}

\* C14: pick_longest_segment returns a segment of the list that has the
\* target state and a positive duration, maximal among such segments, and
\* the first of them in list order when several reach the maximum; it
\* returns none when the list has no such segment.
C14_PickLongestSegment ==
    call_pc = "returned" =>
        LET cs == Candidates(call_args)
            sg == call_args.segs
            r == call_result.seg
        IN  IF cs = {} THEN r.none
            ELSE /\ ~r.none
                 /\ \E i \in cs :
                       /\ sg[i].a = r.a /\ sg[i].b = r.b
                       /\ \A j \in cs : sg[j].b - sg[j].a <= r.b - r.a
                       /\ \A j \in cs : j < i => sg[j].b - sg[j].a < r.b - r.a

\* A call returned the first of two candidates of the same, maximal
\* duration, a segment of another state being in the list too.
C14_Witness ==
    /\ call_pc = "returned"
    /\ call_args.fn = "pick_longest_segment"
    /\ ~call_result.seg.none
    /\ \E i, j \in Candidates(call_args) :
          /\ i < j
          /\ call_args.segs[i].a = call_result.seg.a
          /\ call_args.segs[i].b = call_result.seg.b
          /\ call_args.segs[j].b - call_args.segs[j].a
                = call_args.segs[i].b - call_args.segs[i].a
    /\ \E i \in 1..Len(call_args.segs) : call_args.segs[i].st # call_args.target_state

\* C15: a feature row has stiff_ok exactly when its phase is one of
\* MOVINGNEGATIVE, TESTINGPOSITIVE, TESTINGNEGATIVE and its filtered
\* stiffness is defined and within [0, 100] N/um.
C15_StiffOk ==
    \A r \in AllFeatureRows :
        r.stiff_ok <=>
            /\ r.state \in {"MOVINGNEGATIVE", "TESTINGPOSITIVE", "TESTINGNEGATIVE"}
            /\ ~r.stiffness.nan
            /\ 0 <= r.stiffness.v /\ r.stiffness.v <= 1000

\* A returned row whose raw stiffness was clamped to zero and is accepted.
C15_Witness ==
    /\ feat_pc = "done"
    /\ \E i \in 1..Len(df_feat) :
          /\ df_feat[i].stiffness_raw = Num(-5)
          /\ df_feat[i].stiffness = Num(0)
          /\ df_feat[i].stiff_ok

\* C16: when the output table exists and overwrite is false, the aggregator
\* returns the stored table, makes no query and leaves the stored table as
\* it is; when overwrite is true it recomputes (starts the loop over the
\* windows with no rows) and stores the table it returns.
C16_FeatureCache ==
    [][/\ (feat_pc = "start" /\ ~overwrite /\ feat_csv.exists) =>
            /\ feat_pc' = "done"
            /\ df_feat' = feat_csv.table
            /\ feat_csv' = feat_csv
            /\ feat_queries' = feat_queries
       /\ (feat_pc = "start" /\ overwrite) =>
            /\ feat_pc' = "group"
            /\ rows' = <<>>
       /\ (overwrite /\ feat_pc # "done" /\ feat_pc' = "done") =>
            /\ df_feat' = Classify(rows)
            /\ feat_csv' = Table(df_feat')]_vars

\* A run returned a stored, non-empty table for a window table that is not
\* empty, without a query.
C16_Witness ==
    /\ feat_pc = "done"
    /\ ~overwrite
    /\ feat_csv.exists
    /\ feat_csv.table # <<>>
    /\ df_feat = feat_csv.table
    /\ df_groups # <<>>
    /\ feat_queries = 0

\* C17: the window table the scanner returns is sorted by (date, start
\* time), so its start times never decrease along the table, whatever the
\* order in which the chunks and groups appended the windows.
C17_WindowsChronological ==
    scan_pc = "done" =>
        \A i, j \in 1..Len(df_groups_out) :
            i < j =>
                /\ df_groups_out[i].date <= df_groups_out[j].date
                /\ df_groups_out[i].t_start <= df_groups_out[j].t_start

\* The scan returned a table whose windows were appended out of order: a
\* later chunk added a window that starts before one appended earlier.
C17_Witness ==
    /\ scan_pc = "done"
    /\ Len(df_groups_out) = Len(group_rows)
    /\ \E i, j \in 1..Len(group_rows) :
          /\ i < j
          /\ group_rows[i].t_start > group_rows[j].t_start
          /\ group_rows[i].chunk < group_rows[j].chunk

\* The rows of the returned window table that carry the date d.
WindowsOfDate(d) == {i \in 1..Len(df_groups_out) : df_groups_out[i].date = d}

\* C19: for every date of the returned window table the daily summary has
\* a row, and its n_groups is the number of windows of that date.
C19_DailyGroupCount ==
    scan_pc = "done" =>
        \A i \in 1..Len(df_groups_out) :
            \E k \in 1..Len(df_days_out) :
                /\ df_days_out[k].date = df_groups_out[i].date
                /\ df_days_out[k].n_groups
                      = Cardinality(WindowsOfDate(df_groups_out[i].date))

\* C18: the feature table has one row per (group_id, actuator, phase): no
\* two rows, appended or returned, share the triple.
C18_OneRowPerTriple ==
    /\ \A i, j \in 1..Len(rows) :
          i < j => <<rows[i].group_id, rows[i].hp, rows[i].state>>
                      # <<rows[j].group_id, rows[j].hp, rows[j].state>>
    /\ \A i, j \in 1..Len(df_feat) :
          i < j => <<df_feat[i].group_id, df_feat[i].hp, df_feat[i].state>>
                      # <<df_feat[j].group_id, df_feat[j].hp, df_feat[j].state>>

\* C20: when the elevation or the azimuth query of a window raises, both
\* angles of the window are undefined and the run goes on to the states of
\* the window; a query that returns no data leaves its angle undefined; the
\* rows of the window carry the angles of the window.
C20_MountAngleFetch ==
    [][/\ (include_mount_angles /\ feat_pc = "group" /\ feat_queries' > feat_queries) =>
            /\ (feat_angle_q'[1].kind = "raise" \/ feat_angle_q'[2].kind = "raise")
                  => feat_angles' = <<NaN, NaN>>
            /\ feat_angle_q'[1].kind = "empty" => feat_angles'[1] = NaN
            /\ feat_angle_q'[2].kind = "empty" => feat_angles'[2] = NaN
            /\ feat_pc' \in {"group", "hp"}
       /\ Len(rows') = Len(rows) + 1 =>
            /\ rows'[Len(rows')].win = feat_idx
            /\ rows'[Len(rows')].elevation_deg = feat_angles[1]
            /\ rows'[Len(rows')].azimuth_deg = feat_angles[2]]_vars

\* A window whose elevation query returned data and whose azimuth query
\* raised has a row, with both angles undefined.
C20_Witness ==
    /\ include_mount_angles
    /\ feat_angle_q[1].kind = "data"
    /\ feat_angle_q[2].kind = "raise"
    /\ \E i \in 1..Len(rows) :
          /\ rows[i].win = feat_idx
          /\ rows[i].elevation_deg = NaN
          /\ rows[i].azimuth_deg = NaN

(***************************************************************************)
(* features.py: center_to_origin called on its own.  A curve is a sequence *)
(* of samples [t, force, displacement] with distinct timestamps.           *)
(***************************************************************************)
\* Mutant: the sample of largest absolute force is taken.
IdxMaxAbs(df) ==
    CHOOSE i \in 1..Len(df) :
        /\ \A j \in 1..Len(df) : Abs(df[j].force) <= Abs(df[i].force)
        /\ \A j \in 1..(i - 1) : Abs(df[j].force) < Abs(df[i].force)

\* Line 288: df["force"].abs().idxmin(): the first sample of smallest |force|.
IdxMinAbs(df) ==
    CHOOSE i \in 1..Len(df) :
        /\ \A j \in 1..Len(df) : Abs(df[i].force) <= Abs(df[j].force)
        /\ \A j \in 1..(i - 1) : Abs(df[j].force) > Abs(df[i].force)

\* Lines 285-293.
center_to_origin(df_) ==
    LET df == SortIndex(df_) IN
    IF df = <<>> THEN df
    ELSE LET i0 == IdxMinAbs(df)
             x0 == df[i0].displacement
             y0 == df[i0].force
         IN  [i \in 1..Len(df) |->
                [t |-> df[i].t, force |-> df[i].force - y0,
                 displacement |-> df[i].displacement - x0]]

CurveForces == -2..2
CurveDisps == {-1, 0, 3}

\* The curves of n samples at the timestamps 1..n, the rows in time order
\* or in reverse time order.
CurvesOfLen(n) ==
    { [i \in 1..n |-> [t |-> ts[i], force |-> fs[i], displacement |-> ds[i]]] :
        ts \in {[i \in 1..n |-> i], [i \in 1..n |-> n + 1 - i]},
        fs \in SeqsOfLen(CurveForces, n), ds \in SeqsOfLen(CurveDisps, n) }

InitCenter ==
    /\ IdleSeg
    /\ IdleBrk
    /\ IdleFeat
    /\ IdleChunk
    /\ IdleScan
    /\ \E n \in 0..MaxLen :
          call_args \in [fn : {"center_to_origin"}, df : CurvesOfLen(n)]
    /\ call_result = [fn |-> "none"]
    /\ call_pc = "call"

\* The function is applied, and applied again to what it returned.
CenterToOrigin ==
    /\ call_pc = "call"
    /\ call_args.fn = "center_to_origin"
    /\ call_result' = [fn |-> "center_to_origin",
                      once |-> center_to_origin(call_args.df),
                      twice |-> center_to_origin(center_to_origin(call_args.df))]
    /\ call_pc' = "returned"
    /\ UNCHANGED call_args
    /\ UNCHANGED <<segVars, brkVars, featVars, chunkVars, scanVars>>

NextCenter == CenterToOrigin

SpecCenter == InitCenter /\ [][NextCenter]_vars

\* C21: after center_to_origin a sample of smallest absolute force of the
\* curve lies at displacement 0 and force 0, and applying center_to_origin to
\* the result gives the same curve again.
C21_CenterIdempotent ==
    call_pc = "returned" =>
        /\ call_result.twice = call_result.once
        /\ Len(call_result.once) = Len(call_args.df)
        /\ call_args.df # <<>> =>
              \E i \in 1..Len(call_args.df) :
                  /\ \A j \in 1..Len(call_args.df) :
                        Abs(call_args.df[i].force) <= Abs(call_args.df[j].force)
                  /\ \E k \in 1..Len(call_result.once) :
                        /\ call_result.once[k].t = call_args.df[i].t
                        /\ call_result.once[k].force = 0
                        /\ call_result.once[k].displacement = 0

\* A call on a curve with an offset in force and in displacement, two
\* samples of the same smallest absolute force, and rows out of time order.
C21_Witness ==
    /\ call_pc = "returned"
    /\ call_args.fn = "center_to_origin"
    /\ call_result.once # SortIndex(call_args.df)
    /\ call_args.df # SortIndex(call_args.df)
    /\ \E i, j \in 1..Len(call_args.df) :
          /\ i # j
          /\ call_args.df[i].force = -call_args.df[j].force
          /\ call_args.df[i].force # 0
          /\ call_args.df[i].displacement # 0
          /\ \A k \in 1..Len(call_args.df) :
                Abs(call_args.df[i].force) <= Abs(call_args.df[k].force)

(***************************************************************************)
(* features.py: slope_through_origin called on its own.  The quotient of   *)
(* line 268 is kept as the exact fraction num/den, so two slopes are equal *)
(* when their cross products are.  Vectors hold finite numbers, so the     *)
(* denominator is always finite and only its zero test of line 266 can     *)
(* fire.                                                                   *)
(***************************************************************************)
RECURSIVE Dot(_, _)
\* np.dot of two vectors of the same length.
Dot(x, y) ==
    IF x = <<>> THEN 0 ELSE Head(x) * Head(y) + Dot(Tail(x), Tail(y))

NaNRatio == [nan |-> TRUE, num |-> 0, den |-> 1]

\* Mutant: the sum of products is divided by the number of samples.
SlopeByLength(x, y) ==
    IF Dot(x, x) = 0 THEN NaNRatio
    ELSE [nan |-> FALSE, num |-> Dot(x, y), den |-> Len(x)]

\* Lines 265-268.
slope_through_origin(x, y) ==
    LET denom == Dot(x, x) IN
    IF denom = 0 THEN NaNRatio
    ELSE [nan |-> FALSE, num |-> Dot(x, y), den |-> denom]

VecX == {-2, 0, 1, 3}
VecY == {-1, 0, 2}
Coeffs == {-1, 2}

\* a*y1 + b*y2, element by element.
LinComb(a, y1, b, y2) == [i \in 1..Len(y1) |-> a * y1[i] + b * y2[i]]

InitSlope ==
    /\ IdleSeg
    /\ IdleBrk
    /\ IdleFeat
    /\ IdleChunk
    /\ IdleScan
    /\ \E n \in 0..MaxVec :
          call_args \in [fn : {"slope_through_origin"}, x : SeqsOfLen(VecX, n),
                         y1 : SeqsOfLen(VecY, n), y2 : SeqsOfLen(VecY, n),
                         a : Coeffs, b : Coeffs]
    /\ call_result = [fn |-> "none"]
    /\ call_pc = "call"

\* The function is applied to y1, to y2 and to a*y1 + b*y2 with the same x.
SlopeThroughOrigin ==
    /\ call_pc = "call"
    /\ call_args.fn = "slope_through_origin"
    /\ call_result' =
          [fn |-> "slope_through_origin",
           k1 |-> slope_through_origin(call_args.x, call_args.y1),
           k2 |-> slope_through_origin(call_args.x, call_args.y2),
           k |-> slope_through_origin(call_args.x,
                    LinComb(call_args.a, call_args.y1, call_args.b, call_args.y2))]
    /\ call_pc' = "returned"
    /\ UNCHANGED call_args
    /\ UNCHANGED <<segVars, brkVars, featVars, chunkVars, scanVars>>

NextSlope == SlopeThroughOrigin

SpecSlope == InitSlope /\ [][NextSlope]_vars

\* C22: with x.x non-zero, slope_through_origin(x, y) is the k with
\* k*(x.x) = x.y, and slope(x, a*y1 + b*y2) = a*slope(x, y1) + b*slope(x, y2);
\* with x the zero vector the result is undefined.  A slope is the fraction
\* num/den, so the equalities are stated by cross multiplication.
C22_SlopeLinear ==
    call_pc = "returned" =>
        LET x == call_args.x
            k == call_result.k
            k1 == call_result.k1
            k2 == call_result.k2
        IN  IF \A i \in 1..Len(x) : x[i] = 0
            THEN k.nan /\ k1.nan /\ k2.nan
            ELSE /\ ~k.nan /\ ~k1.nan /\ ~k2.nan
                 /\ k1.num * Dot(x, x) = Dot(x, call_args.y1) * k1.den
                 /\ k2.num * Dot(x, x) = Dot(x, call_args.y2) * k2.den
                 /\ k.num * k1.den * k2.den =
                       call_args.a * k1.num * k.den * k2.den
                       + call_args.b * k2.num * k.den * k1.den

\* A call with x.x greater than the number of samples, two different y
\* vectors and non-zero slopes for all three.
C22_Witness ==
    /\ call_pc = "returned"
    /\ call_args.fn = "slope_through_origin"
    /\ Dot(call_args.x, call_args.x) > Len(call_args.x)
    /\ call_args.y1 # call_args.y2
    /\ call_result.k1.num # 0
    /\ call_result.k2.num # 0
    /\ call_result.k.num # 0

\* The arguments C23 is about: a non-empty range, chunks of at least a day
\* and an overlap shorter than a chunk.
ChunkArgsRegular ==
    /\ chunk_args.start < chunk_args.end
    /\ chunk_args.days >= 1
    /\ 0 <= chunk_args.overlap_hours
    /\ chunk_args.overlap_hours < DaysDelta(chunk_args.days)

\* What holds of the chunks yielded so far, and of all of them at the end.
ChunkLayout ==
    /\ ChunkArgsRegular =>
          /\ Len(chunks) < MaxChunks
          /\ chunks # <<>> => chunks[1].lo = chunk_args.start
          /\ \A i \in 1..Len(chunks) :
                /\ chunks[i].lo < chunks[i].hi
                /\ chunks[i].hi <= chunks[i].lo + DaysDelta(chunk_args.days)
                /\ chunks[i].hi <= chunk_args.end
          /\ \A i \in 1..(Len(chunks) - 1) :
                /\ chunks[i + 1].lo = chunks[i].hi - chunk_args.overlap_hours
                /\ chunks[i + 1].lo > chunks[i].lo
                /\ chunks[i + 1].hi > chunks[i].hi
          /\ chunk_pc = "done" =>
                /\ chunks # <<>>
                /\ chunks[Len(chunks)].hi = chunk_args.end
                /\ ChunksCover
    /\ chunk_args.start >= chunk_args.end => chunks = <<>>

\* C23: for start < end, days >= 1 and 0 <= overlap < chunk size the
\* generator yields finitely many chunks; the first starts at start, the last
\* ends at end, every chunk has chunk_start < chunk_end <= chunk_start + days,
\* every following chunk starts exactly overlap before the end of the one
\* before it and later than that one started, and together they cover
\* [start, end]; for start >= end the generator finishes without a chunk.
C23_ChunkLayout ==
    /\ []ChunkLayout
    /\ [](chunk_pc = "loop" /\ (ChunkArgsRegular \/ chunk_args.start >= chunk_args.end)
            => <>(chunk_pc = "done"))

\* A finished run of three chunks or more with a positive overlap whose last
\* chunk is shorter than the chunk size.
C23_Witness ==
    /\ chunk_pc = "done"
    /\ ChunkArgsRegular
    /\ chunk_args.overlap_hours > 0
    /\ Len(chunks) >= 3
    /\ chunks[Len(chunks)].hi - chunks[Len(chunks)].lo < DaysDelta(chunk_args.days)

\* A finished run over an empty range that starts after its end.
C23_WitnessEmpty ==
    /\ chunk_pc = "done"
    /\ chunk_args.start > chunk_args.end
    /\ chunks = <<>>

\* Up to MaxWindows windows, no mount angles, two actuators with telemetry,
\* a few phase outcomes, a budget of MaxRows + 2 rows.
InitFeatOrder ==
    /\ IdleCall
    /\ IdleScan
    /\ IdleSeg
    /\ IdleBrk
    /\ IdleChunk
    /\ df_groups \in WindowTables
    /\ overwrite = TRUE
    /\ include_mount_angles = FALSE
    /\ feat_csv = NoTable
    /\ feat_env \in {[profile |-> "few", max_rows |-> MaxRows + 2, hps |-> h] :
                        h \in {{1, 2}, {3, N_HP}}}
    /\ feat_pc = "start"
    /\ feat_idx = 0
    /\ feat_hp = 0
    /\ feat_ph = 0
    /\ feat_angles = <<NaN, NaN>>
    /\ feat_angle_q = <<NoQuery, NoQuery>>
    /\ feat_case = [k_raw |-> NaN, ba_force |-> NaN]
    /\ rows = <<>>
    /\ df_feat = <<>>
    /\ feat_queries = 0

SpecFeatOrder == InitFeatOrder /\ [][NextFeat]_vars

\* The place of a phase name in the order of C24.
PhaseRank(name) ==
    CASE name = "MOVINGNEGATIVE" -> 1
      [] name = "TESTINGPOSITIVE" -> 2
      [] name = "TESTINGNEGATIVE" -> 3

\* Row r comes before row s in the order window, actuator, phase.
RowBefore(r, s) ==
    \/ r.win < s.win
    \/ r.win = s.win /\ r.hp < s.hp
    \/ r.win = s.win /\ r.hp = s.hp /\ PhaseRank(r.state) < PhaseRank(s.state)

\* C24: the feature rows stand in the order of the enumeration: by place of
\* the window in the window table, then by actuator 1..6, then by phase in
\* the order MOVINGNEGATIVE, TESTINGPOSITIVE, TESTINGNEGATIVE; a step leaves
\* the rows it finds as they are and at most appends one, and the returned
\* table holds the same rows in the same order with the in_band column added.
C24_RowsInEnumerationOrder ==
    [][ /\ Len(rows') \in {Len(rows), Len(rows) + 1}
        /\ \A i \in 1..Len(rows) : rows'[i] = rows[i]
        /\ \A i \in 1..Len(rows') : \A j \in (i + 1)..Len(rows') :
              RowBefore(rows'[i], rows'[j])
        /\ feat_pc' = "done" =>
              /\ Len(df_feat') = Len(rows')
              /\ \A i \in 1..Len(rows') :
                    \A f \in DOMAIN rows'[i] : df_feat'[i][f] = rows'[i][f]
      ]_vars

\* A finished run whose table holds rows of two windows, and of two
\* actuators and of two phases of one window.
C24_Witness ==
    /\ feat_pc = "done"
    /\ \E i, j \in 1..Len(df_feat) : df_feat[i].win # df_feat[j].win
    /\ \E i, j \in 1..Len(df_feat) :
          df_feat[i].win = df_feat[j].win /\ df_feat[i].hp # df_feat[j].hp
    /\ \E i, j \in 1..Len(df_feat) :
          /\ df_feat[i].win = df_feat[j].win
          /\ df_feat[i].hp = df_feat[j].hp
          /\ df_feat[i].state # df_feat[j].state

(***************************************************************************)
(* features.py: stiffness_from_df called on its own.  Displacements are    *)
(* whole micrometres and forces whole newtons; the slope is the exact      *)
(* fraction of slope_through_origin.                                       *)
(***************************************************************************)
DISP_FIT_UM == 100
FIT_POINTS_AROUND_ZERO == 10

Max(a, b) == IF a >= b THEN a ELSE b

\* np.argmin(np.abs(x)) as a position from 1: the first sample of smallest
\* |displacement|.
ArgMinAbsDisp(dfc) ==
    CHOOSE j \in 1..Len(dfc) :
        /\ \A m \in 1..Len(dfc) : Abs(dfc[j].displacement) <= Abs(dfc[m].displacement)
        /\ \A m \in 1..(j - 1) : Abs(dfc[m].displacement) > Abs(dfc[j].displacement)

Column(df, c) == [i \in 1..Len(df) |-> df[i][c]]

\* Mutant: the slice stops one sample short on the right.
StiffnessFitShort(df_fd) ==
    IF Len(df_fd) < 20 THEN [k |-> NaNRatio, fit |-> <<>>]
    ELSE LET dfc == SelectSeq(center_to_origin(df_fd),
                              LAMBDA s : Abs(s.displacement) <= DISP_FIT_UM)
         IN  IF dfc = <<>> THEN [k |-> NaNRatio, fit |-> <<>>]
             ELSE LET j0 == ArgMinAbsDisp(dfc) - 1
                      lo == Max(0, j0 - FIT_POINTS_AROUND_ZERO)
                      hi == Min(Len(dfc), j0 + FIT_POINTS_AROUND_ZERO)
                      df_fit == SubSeq(dfc, lo + 1, hi)
                  IN  IF Len(df_fit) < 5 THEN [k |-> NaNRatio, fit |-> df_fit]
                      ELSE [k |-> slope_through_origin(Column(df_fit, "displacement"),
                                                       Column(df_fit, "force")),
                            fit |-> df_fit]

\* Lines 315-331: the value returned (k) and the frame df_fit it was fitted
\* on.  j0, lo and hi count from 0 as in the source; iloc[lo:hi] is the
\* samples lo+1..hi of the sequence.
StiffnessFit(df_fd) ==
    IF Len(df_fd) < 20 THEN [k |-> NaNRatio, fit |-> <<>>]
    ELSE LET dfc == SelectSeq(center_to_origin(df_fd),
                              LAMBDA s : Abs(s.displacement) <= DISP_FIT_UM)
         IN  IF dfc = <<>> THEN [k |-> NaNRatio, fit |-> <<>>]
             ELSE LET j0 == ArgMinAbsDisp(dfc) - 1
                      lo == Max(0, j0 - FIT_POINTS_AROUND_ZERO)
                      hi == Min(Len(dfc), j0 + FIT_POINTS_AROUND_ZERO + 1)
                      df_fit == SubSeq(dfc, lo + 1, hi)
                  IN  IF Len(df_fit) < 5 THEN [k |-> NaNRatio, fit |-> df_fit]
                      ELSE [k |-> slope_through_origin(Column(df_fit, "displacement"),
                                                       Column(df_fit, "force")),
                            fit |-> df_fit]

stiffness_from_df(df_fd) == StiffnessFit(df_fd).k

\* Force/displacement curves of n samples at the timestamps 1..n: the
\* displacement is a ramp of the given step through zero at sample z, the
\* sample at exc (if any) lies far outside the fit range, and the force
\* follows the displacement with a preload and a ripple.
RampCurve(n, z, step, exc, preload) ==
    [i \in 1..n |->
        LET d == IF i = exc THEN 500 ELSE step * (i - z) IN
        [t |-> i, displacement |-> d, force |-> 2 * d + preload + (i % 2)]]

CurveLens == {0, 5, 19, 20, 21, MaxCurve}
CurveSteps == {0, 1, 30, 101}
CurvePreloads == {0, 50}

RampCurves ==
    {<<>>} \cup
    UNION { { RampCurve(n, z, step, exc, preload) :
                z \in {1, 3, 11, 12, n} \cap 1..n,
                step \in CurveSteps,
                exc \in {0, 2, 10, 13},
                preload \in CurvePreloads } : n \in CurveLens \ {0} }

InitStiffness ==
    /\ IdleSeg
    /\ IdleBrk
    /\ IdleFeat
    /\ IdleChunk
    /\ IdleScan
    /\ call_args \in [fn : {"stiffness_from_df"}, df : RampCurves]
    /\ call_result = [fn |-> "none"]
    /\ call_pc = "call"

StiffnessFromDf ==
    /\ call_pc = "call"
    /\ call_args.fn = "stiffness_from_df"
    /\ call_result' = [fn |-> "stiffness_from_df",
                      k |-> stiffness_from_df(call_args.df),
                      fit |-> StiffnessFit(call_args.df).fit]
    /\ call_pc' = "returned"
    /\ UNCHANGED call_args
    /\ UNCHANGED <<segVars, brkVars, featVars, chunkVars, scanVars>>

NextStiffness == StiffnessFromDf

SpecStiffness == InitStiffness /\ [][NextStiffness]_vars

\* The centred curve, and its samples within the fit range.
Centred == center_to_origin(call_args.df)
CentredInRange == SelectSeq(Centred, LAMBDA s : Abs(s.displacement) <= 100)

\* The samples of w follow each other in the curve with none left out.
TimeConsecutive(w) ==
    \A i \in 1..Len(Centred) :
        (w # <<>> /\ w[1].t <= Centred[i].t /\ Centred[i].t <= w[Len(w)].t)
            => \E m \in 1..Len(w) : w[m] = Centred[i]

\* w holds at most 21 samples: a centred sample nearest zero displacement
\* and at most 10 samples on each side of it.
FitWindowShape(w) ==
    /\ Len(w) <= 21
    /\ \E m \in 1..Len(w) :
          /\ \A i \in 1..Len(Centred) :
                Abs(w[m].displacement) <= Abs(Centred[i].displacement)
          /\ m - 1 <= 10
          /\ Len(w) - m <= 10

\* The value returned is the through-origin slope over w, undefined when w
\* holds fewer than 5 samples.
SlopeOverWindow(w) ==
    IF Len(w) < 5 THEN call_result.k.nan
    ELSE call_result.k = slope_through_origin(Column(w, "displacement"),
                                              Column(w, "force"))

(***************************************************************************)
(* C25 (as stated): stiffness_from_df returns undefined for a curve of     *)
(* fewer than 20 samples, when no centred sample has |displacement| <= 100 *)
(* um, or when the fit window holds fewer than 5 samples; otherwise the    *)
(* through-origin slope over a fit window of at most 21 time-consecutive   *)
(* samples: the centred sample nearest zero displacement and up to 10      *)
(* samples on each side of it.                                             *)
(***************************************************************************)
C25_FitWindowTimeConsecutive ==
    call_pc = "returned" =>
        IF Len(call_args.df) < 20 \/ CentredInRange = <<>>
        THEN call_result.k.nan
        ELSE /\ FitWindowShape(call_result.fit)
             /\ TimeConsecutive(call_result.fit)
             /\ SlopeOverWindow(call_result.fit)

(***************************************************************************)
(* C25 (amended): the same, the fit window being at most 21 consecutive    *)
(* samples of the centred curve restricted to |displacement| <= 100 um:    *)
(* the restricted sample nearest zero displacement and the up to 10        *)
(* restricted samples on each side of it.                                  *)
(***************************************************************************)
C25_FitWindowOfRestrictedCurve ==
    call_pc = "returned" =>
        IF Len(call_args.df) < 20 \/ CentredInRange = <<>>
        THEN call_result.k.nan
        ELSE /\ FitWindowShape(call_result.fit)
             /\ \E j \in 1..Len(CentredInRange) :
                   /\ \A m \in 1..Len(CentredInRange) :
                         Abs(CentredInRange[j].displacement)
                            <= Abs(CentredInRange[m].displacement)
                   /\ call_result.fit =
                         SubSeq(CentredInRange, Max(1, j - 10),
                                Min(Len(CentredInRange), j + 10))
             /\ SlopeOverWindow(call_result.fit)

\* A call that returns a slope fitted on 21 samples with more samples of the
\* restricted curve on both sides, one sample inside the window's time span
\* lying outside the fit range.
C25_Witness ==
    /\ call_pc = "returned"
    /\ call_args.fn = "stiffness_from_df"
    /\ ~call_result.k.nan
    /\ Len(call_result.fit) = 21
    /\ call_result.fit[1] # CentredInRange[1]
    /\ call_result.fit[21] # CentredInRange[Len(CentredInRange)]
    /\ ~TimeConsecutive(call_result.fit)

\* A call on 20 samples or more that returns undefined because the fit
\* window holds fewer than 5 samples.
C25_WitnessSmallWindow ==
    /\ call_pc = "returned"
    /\ call_args.fn = "stiffness_from_df"
    /\ Len(call_args.df) >= 20
    /\ Len(call_result.fit) \in 1..4
    /\ call_result.k.nan

(***************************************************************************)
(* scan_status.py: the actuator indices of a command group (lines 299-304) *)
(* computed on their own from the sorted distinct actuator ids of a group. *)
(***************************************************************************)
HpIdLo == -1
HpIdHi == 8

InitHp ==
    /\ IdleSeg
    /\ IdleBrk
    /\ IdleFeat
    /\ IdleChunk
    /\ IdleScan
    /\ \E n \in 0..MaxLen :
          call_args \in [fn : {"hp_indices"}, uniq_hp : IncSeqs(HpIdLo, HpIdHi, n)]
    /\ call_result = [fn |-> "none"]
    /\ call_pc = "call"

ComputeHpIndices ==
    /\ call_pc = "call"
    /\ call_args.fn = "hp_indices"
    /\ call_result' = [fn |-> "hp_indices", hp_indices |-> HpIndices(call_args.uniq_hp)]
    /\ call_pc' = "returned"
    /\ UNCHANGED call_args
    /\ UNCHANGED <<segVars, brkVars, featVars, chunkVars, scanVars>>

NextHp == ComputeHpIndices

SpecHp == InitHp /\ [][NextHp]_vars

\* C26: the actuator indices monitored for a command group are a
\* non-empty subset of {0, ..., 5}: each id h of the group with 1 <= h <= 6
\* gives h - 1, every other id is dropped, and when nothing remains the
\* indices are all six.
C26_HpIndicesSubset ==
    call_pc = "returned" =>
        LET got == Range(call_result.hp_indices)
            mapped == {h - 1 : h \in {u \in Range(call_args.uniq_hp) : 1 <= u /\ u <= 6}}
        IN  /\ got # {}
            /\ got \subseteq 0..5
            /\ got = IF mapped # {} THEN mapped ELSE 0..5

\* A group whose ids hold 1, 6 and one id out of range: indices 0 and 5 only.
C26_Witness ==
    /\ call_pc = "returned"
    /\ call_args.fn = "hp_indices"
    /\ {1, 6} \subseteq Range(call_args.uniq_hp)
    /\ Range(call_args.uniq_hp) \ (1..6) # {}
    /\ Range(call_result.hp_indices) = {0, 5}

\* A group none of whose ids is in range: all six indices.
C26_WitnessFallback ==
    /\ call_pc = "returned"
    /\ call_args.fn = "hp_indices"
    /\ call_args.uniq_hp # <<>>
    /\ Range(call_result.hp_indices) = 0..5
    /\ Range(call_args.uniq_hp) \cap (1..6) = {}

\* The (start, end, actuator indices) triple of a window row, and of a
\* candidate of the log for which a window was computed.
TripleOf(r) == <<r.t_start, r.t_end, r.hp_indices>>
CandidateTriple(e) == <<e.t0.val, e.t1.val, e.hp_indices>>
IsCandidate(e) == ~e.t0.none /\ ~e.t1.none /\ e.t1.val > e.t0.val

\* C27: no two accumulated windows have the same (start, end, actuator
\* indices) triple; a candidate is appended exactly when no earlier
\* candidate, of this or of an earlier chunk, had its triple, and the windows
\* accumulated before stay as they are.
C27_NoDuplicateWindows ==
    [][ /\ Len(group_rows') >= Len(group_rows)
        /\ \A i \in 1..Len(group_rows) : group_rows'[i] = group_rows[i]
        /\ \A i, j \in 1..Len(group_rows') :
              i # j => TripleOf(group_rows'[i]) # TripleOf(group_rows'[j])
        /\ \A n \in 1..Len(scan_log') :
              IsCandidate(scan_log'[n]) =>
                 /\ \E i \in 1..Len(group_rows') :
                       TripleOf(group_rows'[i]) = CandidateTriple(scan_log'[n])
                 /\ scan_log'[n].emitted =
                       (\A m \in 1..(n - 1) :
                           IsCandidate(scan_log'[m]) =>
                              CandidateTriple(scan_log'[m]) # CandidateTriple(scan_log'[n]))
      ]_vars

\* A finished scan in which a candidate of a later chunk was dropped because
\* a window of an earlier chunk had its triple.
C27_Witness ==
    /\ scan_pc = "done"
    /\ \E m, n \in 1..Len(scan_log) :
          /\ m < n
          /\ scan_log[m].emitted
          /\ IsCandidate(scan_log[n])
          /\ ~scan_log[n].emitted
          /\ scan_log[m].chunk < scan_log[n].chunk
          /\ CandidateTriple(scan_log[m]) = CandidateTriple(scan_log[n])

\* C28: every window the scanner emits, accumulated or returned, lasts at
\* least end_buffer and at most max_duration + end_buffer, its duration being
\* t_end - t_start.
C28_DurationBounds ==
    \A rs \in {group_rows, df_groups_out} :
        \A i \in 1..Len(rs) :
            /\ rs[i].duration = rs[i].t_end - rs[i].t_start
            /\ rs[i].duration >= scan_args.end_buffer
            /\ rs[i].duration <= scan_args.max_duration + scan_args.end_buffer

\* A finished scan with a positive end_buffer that returns a window of the
\* shortest and a window of the longest duration.
C28_Witness ==
    /\ scan_pc = "done"
    /\ scan_args.end_buffer > 0
    /\ \E i, j \in 1..Len(df_groups_out) :
          /\ df_groups_out[i].duration = scan_args.end_buffer
          /\ df_groups_out[j].duration = scan_args.max_duration + scan_args.end_buffer

\* C29: in every feature row the filtered stiffness is undefined or lies in
\* [0, 100] N/um, and stiff_ok is true exactly when the filtered stiffness
\* is defined.  (Stiffness in tenths of N/um.)
C29_FilteredStiffnessRange ==
    \A r \in AllFeatureRows :
        /\ r.stiffness.nan \/ (0 <= r.stiffness.v /\ r.stiffness.v <= 1000)
        /\ r.stiff_ok <=> ~r.stiffness.nan

\* A returned row whose raw stiffness is a small negative value: it is
\* clamped to zero and accepted.
C29_Witness ==
    /\ feat_pc = "done"
    /\ \E i \in 1..Len(df_feat) :
          /\ df_feat[i].stiffness_raw = Num(-1)
          /\ df_feat[i].stiffness = Num(0)
          /\ df_feat[i].stiff_ok

\* Returned rows whose raw stiffness lies beyond each limit: undefined and
\* not accepted.
C29_WitnessDiscarded ==
    /\ feat_pc = "done"
    /\ \E i \in 1..Len(df_feat) :
          /\ df_feat[i].stiffness_raw \in {Num(-6), Num(1001)}
          /\ df_feat[i].stiffness.nan
          /\ ~df_feat[i].stiff_ok

\* C30: the segments build_state_segments returns are maximal runs: two
\* consecutive segments carry different state codes, and every segment but
\* the last has a strictly positive duration (the last one has none when the
\* state changes exactly at t1).
C30_SegmentsMaximalRuns ==
    seg_pc = "done" =>
        /\ \A i \in 1..(Len(segs) - 1) :
              /\ segs[i].st # segs[i + 1].st
              /\ segs[i].b > segs[i].a
        /\ segs # <<>> => segs[Len(segs)].b >= segs[Len(segs)].a

\* A call on three real samples inside the window, two of them consecutive
\* with the same state, that returns two segments.
C30_Witness ==
    /\ seg_pc = "done"
    /\ Len(RealInWindow) = 3
    /\ Len(segs) = 2
    /\ segs[2].b > segs[2].a

\* A call that returns several segments, the last one without duration.
C30_WitnessChangeAtEnd ==
    /\ seg_pc = "done"
    /\ Len(segs) >= 2
    /\ segs[Len(segs)].a = segs[Len(segs)].b

====
